---- MODULE Spec2Model ----
(***************************************************************************)
(* Coordination core of the esp32_bridge firmware: the device registry     *)
(* (device_manager), the publish/subscribe bus (event_bus) and the         *)
(* idle-timeout power controller (pmu).                                    *)
(***************************************************************************)
EXTENDS Integers, Sequences, FiniteSets, TLC

(***************************************************************************)
(* Bounds of the model.                                                    *)
(***************************************************************************)
NumDevices == 3          \* device objects that may be offered to the registry
NumPmuDevices == 2       \* of these, the ones registered under the pmu
NumNames == 2            \* distinct device names; objects share names modulo
MaxTime == 6             \* last instant of the steady clock, in clock ticks
TicksPerSec == 2         \* clock ticks per second (the clock is finer than 1s)
MaxTimeoutArg == 2       \* largest idle timeout (seconds) handed to the pmu

NumListeners == 2        \* listener objects created over a run
NumContexts == 2         \* execution contexts that call the bus
MaxCtxCalls == 2         \* bus calls one context makes in a run

\* CONFIG_POWER_SAVE_TIMEOUT, the Kconfig default behind PMU_DEFAULT_IDLE_TIMEOUT
PMU_DEFAULT_IDLE_TIMEOUT == 30
\* CONFIG_BATTERY_LOW_THRESHOLD and CONFIG_BATTERY_CRITICAL_THRESHOLD
BATTERY_DEFAULT_LOW_THRESHOLD == 20
BATTERY_DEFAULT_CRITICAL_THRESHOLD == 10

Null == 0
Devices == 1..NumDevices
TimeoutArgs == (0 - 1)..MaxTimeoutArg
Listeners == 1..NumListeners
Contexts == 1..NumContexts
\* two values of the closed enumeration event_type
EventTypes == {"data_received", "enter_deep_sleep"}
\* the values of event_type that main_task, battery_manager and
\* network_module subscribe to or publish
AllEventTypes ==
    EventTypes \cup {"network_connected", "network_disconnected",
                     "battery_low", "battery_critical", "battery_normal",
                     "charging_started", "battery_temp_high",
                     "battery_temp_normal"}
\* the control blocks of the shared_ptr temporaries that battery_manager::init
\* and the network_module constructor hand to subscribe()
BatHandle == NumListeners + 1
NetHandle == NumListeners + 2

\* battery_manager.cpp:18-21 and 29-31, in millivolts and degrees Celsius
BATTERY_MIN_VOLTAGE == 3000
BATTERY_MAX_VOLTAGE == 4200
BATTERY_CHECK_INTERVAL_MS == 10000
\* the scheduler's time, in milliseconds, moves in steps up to a last instant
BatTimeStep == 5000
MaxBatTime == 40000
BATTERY_TEMP_WARNING == 45
BATTERY_TEMP_CRITICAL == 55
BATTERY_DEFAULT_VOLTAGE == 3800
BATTERY_DEFAULT_CURRENT == 100
BATTERY_DEFAULT_TEMP == 25
\* the percentage above which a battery is "high" (battery_manager.cpp:446)
HIGH_PERCENTAGE == 80
\* sensor readings offered to the monitor: millivolts, milliamperes, degrees
Voltages == {3060, 3180, 3310, 4020, 4200}
Currents == {0 - 600, 100}
Temperatures == {25, 45, 55, 60}
\* the reference discharge run and the states expected after its ticks
ScenarioPcts == <<5, 15, 25, 85, 100>>
ScenarioStates == <<"critical", "low", "normal", "high", "full">>

\* a uint32_t is kept as <<high, low>> 16-bit halves
HALF == 65536
\* vTaskDelay(pdMS_TO_TICKS(100)) between the publish and the halt
SLEEP_GRACE_MS == 100
\* sleep_time_ms arguments: none, a short one, and one whose microsecond
\* value does not fit 32 bits
SleepArgs == {0, 1, 536870912}

\* device::name(): immutable per object; several objects may carry one name
DevName(d) == d % NumNames

Range(s) == {s[i] : i \in 1..Len(s)}

VARIABLES
    \* device_manager
    devices_,            \* std::vector<std::shared_ptr<device>>
    dev_initialized,     \* per device object: is_initialized_
    dev_suspended,       \* per device object: its receive task is suspended
    dev_ops,             \* device operations invoked by the latest operation
    h_suspends,          \* per device object: suspend() calls since its latest
                         \* resume(): 0, 1, or 2 for two and more
    \* pmu
    is_locked_, is_suspended_, last_unlock_time_, idle_timeout_,
    now,                 \* std::chrono::steady_clock::now(), in ticks
    mgr_calls,           \* registry broadcasts made by the latest pmu operation
    pmu_pc,              \* position of a lock() call that is under way
    \* event_bus
    listeners_,          \* std::map<event_type, std::vector<std::weak_ptr<..>>>
    alive,               \* listener objects some shared_ptr still owns
    delivered,           \* on_event calls made by the latest publish, in order
    \* contexts inside a bus call (statement-level runs only)
    cpc,                 \* per context: the statement it is at
    carg,                \* per context: <<type, listener>> of its call
    cidx,                \* per context: position of its delivery loop
    cdirty,              \* per context: the vector it iterates was modified
    cinv,                \* per context: the listener it invoked last
    ccalls,              \* per context: bus calls made so far
    \* deep sleep
    halted,              \* esp_deep_sleep_start() has been called
    wake_timer_us,       \* esp_sleep_enable_timer_wakeup argument, <<>>: unarmed
    effects,             \* what the latest sleep call or battery tick did, in
                         \* order: <<kind, name, number>> records
    \* battery_device
    bat_initialized,     \* initialized_
    charge_pin,          \* level of BATTERY_CHARGE_ENABLE_PIN
    \* battery_manager
    battery_device_,     \* a sensor is bound (std::weak_ptr<battery_device>)
    current_state_, charging_state_, charge_percentage_,
    low_battery_threshold_, critical_battery_threshold_,
    last_sample,         \* <<last_voltage_ mV, last_current_ mA, last_temperature_ C>>
    temp_warning_active_,
    \* network_module
    net_created,         \* the singleton has been constructed
    wifi_connected_, tcp_connected_,
    sock_,               \* the socket descriptor, -1 when there is none
    \* battery_manager as its tasks see it
    mutex_,              \* holder of battery_manager::mutex_, or "free"
    upd_pc,              \* position of an update_battery_state() under way
    upd_in,              \* its locals: <<voltage, current, temperature,
                         \* is_charging>>
    get_at,              \* upd_pc as the latest getter found it
    bat_time,            \* xTaskGetTickCount() * portTICK_PERIOD_MS
    last_check_time,     \* the static local of battery_manager::loop()
    h_linkdown,          \* the latest network event handled was a link-down
    h_tick_after,        \* loop() has made an update since that event
    h_ret,               \* what the latest battery call returned:
                         \* <<kind, number, name>>
    \* pmu::loop() as a task of its own
    loop_pc,             \* position of a loop() call that is under way
    \* the system listener inside on_event
    cb,                  \* <<position, monitor function it calls, publisher>>
    \* a publish() whose handlers call the bus
    re,                  \* pc, idx: position of the delivery loop; start: the
                         \* vector it began with; calls: listeners invoked so
                         \* far; removed: listeners unsubscribed meanwhile;
                         \* dirty: the vector was modified under the loop
    \* network_module's receive task
    task_handle_,        \* task_handle_ != nullptr
    rx_pc,               \* position of tcp_receive_task, "none": no task
    rx_sock,             \* its local `sock`
    h_conn,              \* the latest connect_tcp returned true
    \* history
    h_last_thermal,      \* the latest thermal event published, or "none"
    h_scenario,          \* ticks of the reference discharge run seen so far
    h_order,             \* per type: live listeners subscribed, not unsubscribed
    h_unsub,             \* <<type, listener>>: subscription removed on request
    h_expired,           \* expired entries met by the latest publish
    last_op,             \* name of the latest operation
    last_arg,            \* its argument (Null when it has none)
    h_unlock_at,         \* time of the latest unlock() that took effect, or -1
    h_timeout_fixed      \* idle timeout unchanged since that unlock()

regVars == <<devices_, dev_initialized, dev_suspended, dev_ops, h_suspends>>
pmuVars == <<is_locked_, is_suspended_, last_unlock_time_, idle_timeout_, now,
             mgr_calls, pmu_pc>>
histVars == <<last_op, last_arg, h_unlock_at, h_timeout_fixed>>
busVars == <<listeners_, alive, delivered, h_order, h_unsub, h_expired>>
ctxVars == <<cpc, carg, cidx, cdirty, cinv, ccalls>>
sleepVars == <<halted, wake_timer_us, effects>>
batVars == <<bat_initialized, charge_pin, battery_device_, current_state_,
             charging_state_, charge_percentage_, low_battery_threshold_,
             critical_battery_threshold_, last_sample, temp_warning_active_,
             h_last_thermal, h_scenario>>
netVars == <<net_created, wifi_connected_, tcp_connected_, sock_>>
monVars == <<mutex_, upd_pc, upd_in, get_at, bat_time, last_check_time,
             h_linkdown, h_tick_after>>
rxVars == <<task_handle_, rx_pc, rx_sock, h_conn>>
stepVars == <<loop_pc, cb, re, rxVars>>

\* history: the operation that has just been called
Called(op, arg) == last_op' = op /\ last_arg' = arg

(***************************************************************************)
(* device_manager                                                          *)
(***************************************************************************)
\* register_device without the name scan
register_device_noscan(devs, dev) ==
    IF dev = Null THEN devs ELSE Append(devs, dev)

\* register_device that lets a new device take the place of its namesake
register_device_replace(devs, dev) ==
    IF dev = Null THEN devs
    ELSE IF \E i \in 1..Len(devs) : DevName(devs[i]) = DevName(dev)
    THEN [i \in 1..Len(devs) |->
             IF DevName(devs[i]) = DevName(dev) THEN dev ELSE devs[i]]
    ELSE Append(devs, dev)

\* the vector after register_device(dev)
register_device(devs, dev) ==
    IF dev = Null THEN devs
    ELSE IF \E i \in 1..Len(devs) : DevName(devs[i]) = DevName(dev) THEN devs
    ELSE Append(devs, dev)

\* the calls a broadcast makes: one per device, in registration order
Broadcast(op, devs) == [i \in 1..Len(devs) |-> <<op, devs[i]>>]

\* a batch that gives up at the first device whose operation fails
RECURSIVE BatchCalls_abort(_, _, _)
BatchCalls_abort(op, devs, fail) ==
    IF devs = <<>> THEN <<>>
    ELSE IF Head(devs) \in fail THEN << <<op, Head(devs)>> >>
    ELSE << <<op, Head(devs)>> >> \o BatchCalls_abort(op, Tail(devs), fail)

\* the calls of `for (auto& dev : devices_) { int ret = dev->op(); ... }`:
\* the result of a call only selects the line that is logged.
\* fail: the devices whose operation returns non-zero
RECURSIVE BatchCalls(_, _, _)
BatchCalls(op, devs, fail) ==
    IF devs = <<>> THEN <<>>
    ELSE IF Head(devs) \in fail
    THEN << <<op, Head(devs)>> >> \o BatchCalls(op, Tail(devs), fail)
    ELSE << <<op, Head(devs)>> >> \o BatchCalls(op, Tail(devs), fail)

\* uart_device::suspend / resume act on an initialised device only
SuspendAllState(devs, ini, sus) ==
    [d \in Devices |-> IF d \in Range(devs) /\ ini[d] THEN TRUE ELSE sus[d]]

\* resume_all that leaves the receive tasks as they are
ResumeAllState_keep(devs, ini, sus) == sus

ResumeAllState(devs, ini, sus) ==
    [d \in Devices |-> IF d \in Range(devs) /\ ini[d] THEN FALSE ELSE sus[d]]

\* history: every registered device has had one more suspend() call
SuspendCounted(devs, cnt) ==
    [d \in Devices |-> IF d \in Range(devs) /\ cnt[d] < 2 THEN cnt[d] + 1
                        ELSE cnt[d]]

\* history: every registered device has had a resume() call
ResumeCounted(devs, cnt) ==
    [d \in Devices |-> IF d \in Range(devs) THEN 0 ELSE cnt[d]]

RegisterDevice(dev) ==
    /\ devices_' = register_device(devices_, dev)
    /\ dev_ops' = <<>>
    /\ Called("register_device", dev)
    /\ UNCHANGED <<dev_initialized, dev_suspended, h_suspends>>

\* fail: the devices whose driver installation fails in this round
InitAll(fail) ==
    /\ dev_initialized' = [d \in Devices |->
           IF d \in Range(devices_) /\ ~dev_initialized[d]
           THEN d \notin fail ELSE dev_initialized[d]]
    /\ dev_ops' = BatchCalls("init", devices_, fail)
    /\ Called("init_all", Null)
    /\ UNCHANGED <<devices_, dev_suspended, h_suspends>>

\* fail: the devices whose driver removal fails in this round
DeinitAll(fail) ==
    /\ dev_initialized' = [d \in Devices |->
           IF d \in Range(devices_) /\ dev_initialized[d]
           THEN d \in fail ELSE dev_initialized[d]]
    /\ dev_suspended' = [d \in Devices |->
           IF d \in Range(devices_) /\ dev_initialized[d]
           THEN FALSE ELSE dev_suspended[d]]
    /\ dev_ops' = BatchCalls("deinit", devices_, fail)
    /\ Called("deinit_all", Null)
    /\ UNCHANGED <<devices_, h_suspends>>

SuspendAll ==
    /\ dev_suspended' = SuspendAllState(devices_, dev_initialized, dev_suspended)
    /\ \E fail \in SUBSET Range(devices_) :
          dev_ops' = BatchCalls("suspend", devices_, fail)
    /\ Called("suspend_all", Null)
    /\ h_suspends' = SuspendCounted(devices_, h_suspends)
    /\ UNCHANGED <<devices_, dev_initialized>>

ResumeAll ==
    /\ dev_suspended' = ResumeAllState(devices_, dev_initialized, dev_suspended)
    /\ \E fail \in SUBSET Range(devices_) :
          dev_ops' = BatchCalls("resume", devices_, fail)
    /\ Called("resume_all", Null)
    /\ h_suspends' = ResumeCounted(devices_, h_suspends)
    /\ UNCHANGED <<devices_, dev_initialized>>

(***************************************************************************)
(* pmu                                                                     *)
(***************************************************************************)
\* duration_cast<seconds>(now - last_unlock_time_): truncates to whole seconds
ElapsedSeconds(t, last) == (t - last) \div TicksPerSec

\* the timeout test of loop() with the comparison made strict
TimedOut_strict(t, last, timeout) == ElapsedSeconds(t, last) > timeout

\* the timeout test of loop() comparing raw clock ticks with seconds
TimedOut_ticks(t, last, timeout) == (t - last) >= timeout

\* elapsed >= idle_timeout_
TimedOut(t, last, timeout) == ElapsedSeconds(t, last) >= timeout

\* the constructor's choice of idle_timeout_
CtorTimeout(seconds) ==
    IF seconds = 0 THEN PMU_DEFAULT_IDLE_TIMEOUT ELSE seconds

\* lock() that resumes the devices whatever the flags say
LockCalls_always(locked, suspended) == <<"resume_all">>

\* lock() that resumes the devices whenever it takes the lock
LockCalls_taking(locked, suspended) ==
    IF ~locked THEN <<"resume_all">> ELSE <<>>

\* the registry calls lock() makes: resume_all() when it takes the lock on
\* a suspended controller, nothing otherwise
LockCalls(locked, suspended) ==
    IF ~locked /\ suspended THEN <<"resume_all">> ELSE <<>>

PmuLock ==
    /\ pmu_pc = "idle"
    /\ Called("lock", Null)
    /\ mgr_calls' = LockCalls(is_locked_, is_suspended_)
    /\ IF mgr_calls' # <<>>
       THEN /\ dev_suspended' =
                 ResumeAllState(devices_, dev_initialized, dev_suspended)
            /\ dev_ops' = Broadcast("resume", devices_)
            /\ h_suspends' = ResumeCounted(devices_, h_suspends)
       ELSE /\ dev_ops' = <<>>
            /\ UNCHANGED <<dev_suspended, h_suspends>>
    /\ IF ~is_locked_
       THEN /\ is_locked_' = TRUE
            /\ is_suspended_' = (IF is_suspended_ THEN FALSE ELSE is_suspended_)
            /\ h_unlock_at' = 0 - 1
            /\ h_timeout_fixed' = TRUE
       ELSE UNCHANGED <<is_locked_, is_suspended_, h_unlock_at,
                        h_timeout_fixed>>
    /\ UNCHANGED <<devices_, dev_initialized, last_unlock_time_,
                   idle_timeout_, now, pmu_pc>>

\* unlock() that clears the flag but forgets to record the time
UnlockTime_norecord(locked, last, t) == last

\* last_unlock_time_ after unlock()
UnlockTime(locked, last, t) == IF locked THEN t ELSE last

PmuUnlock ==
    /\ pmu_pc = "idle"
    /\ Called("unlock", Null)
    /\ dev_ops' = <<>>
    /\ mgr_calls' = <<>>
    /\ last_unlock_time_' = UnlockTime(is_locked_, last_unlock_time_, now)
    /\ IF is_locked_
       THEN /\ is_locked_' = FALSE
            /\ h_unlock_at' = now
            /\ h_timeout_fixed' = TRUE
       ELSE UNCHANGED <<is_locked_, h_unlock_at, h_timeout_fixed>>
    /\ UNCHANGED <<devices_, dev_initialized, dev_suspended, h_suspends,
                   is_suspended_, idle_timeout_, now, pmu_pc>>

PmuLoop ==
    /\ pmu_pc = "idle"
    /\ Called("loop", Null)
    /\ IF is_locked_ \/ is_suspended_
       THEN /\ dev_ops' = <<>>
            /\ mgr_calls' = <<>>
            /\ UNCHANGED <<dev_suspended, h_suspends, is_suspended_>>
       ELSE IF TimedOut(now, last_unlock_time_, idle_timeout_)
            THEN /\ dev_suspended' =
                      SuspendAllState(devices_, dev_initialized, dev_suspended)
                 /\ dev_ops' = Broadcast("suspend", devices_)
                 /\ h_suspends' = SuspendCounted(devices_, h_suspends)
                 /\ mgr_calls' = <<"suspend_all">>
                 /\ is_suspended_' = TRUE
            ELSE /\ dev_ops' = <<>>
                 /\ mgr_calls' = <<>>
                 /\ UNCHANGED <<dev_suspended, h_suspends, is_suspended_>>
    /\ UNCHANGED <<devices_, dev_initialized, is_locked_, last_unlock_time_,
                   idle_timeout_, now, pmu_pc, h_unlock_at, h_timeout_fixed>>

PmuSetIdleTimeout(seconds) ==
    /\ pmu_pc = "idle"
    /\ Called("set_idle_timeout", seconds)
    /\ idle_timeout_' = IF seconds <= 0 THEN PMU_DEFAULT_IDLE_TIMEOUT
                        ELSE seconds
    /\ h_timeout_fixed' = (h_timeout_fixed /\ idle_timeout_' = idle_timeout_)
    /\ dev_ops' = <<>>
    /\ mgr_calls' = <<>>
    /\ UNCHANGED <<devices_, dev_initialized, dev_suspended, h_suspends,
                   is_locked_, is_suspended_, last_unlock_time_, now, pmu_pc,
                   h_unlock_at>>

\* a destructor that leaves the devices as they are
DtorCalls_never(suspended) == <<>>

\* the registry calls of ~pmu(): resume_all() when is_suspended_
DtorCalls(suspended) == IF suspended THEN <<"resume_all">> ELSE <<>>

\* ~pmu(): the controller takes no call once it is gone
PmuDestroy ==
    /\ pmu_pc = "idle"
    /\ Called("~pmu", Null)
    /\ mgr_calls' = DtorCalls(is_suspended_)
    /\ IF mgr_calls' # <<>>
       THEN /\ dev_suspended' =
                 ResumeAllState(devices_, dev_initialized, dev_suspended)
            /\ dev_ops' = Broadcast("resume", devices_)
            /\ h_suspends' = ResumeCounted(devices_, h_suspends)
       ELSE /\ dev_ops' = <<>>
            /\ UNCHANGED <<dev_suspended, h_suspends>>
    /\ pmu_pc' = "gone"
    /\ UNCHANGED <<devices_, dev_initialized, is_locked_, is_suspended_,
                   last_unlock_time_, idle_timeout_, now, h_unlock_at,
                   h_timeout_fixed>>

\* the steady clock moves on between two operations
AdvanceTime ==
    /\ now < MaxTime
    /\ now' = now + 1
    /\ Called("advance_time", Null)
    /\ UNCHANGED <<regVars, is_locked_, is_suspended_, last_unlock_time_,
                   idle_timeout_, mgr_calls, pmu_pc, h_unlock_at,
                   h_timeout_fixed>>

\* lock(), statement by statement: the flag is set first (part_005:39)
PmuLockBegin ==
    /\ pmu_pc = "idle"
    /\ Called("lock", Null)
    /\ dev_ops' = <<>>
    /\ mgr_calls' = <<>>
    /\ IF ~is_locked_
       THEN /\ is_locked_' = TRUE
            /\ pmu_pc' = IF is_suspended_ THEN "lock_resume" ELSE "idle"
            /\ h_unlock_at' = 0 - 1
            /\ h_timeout_fixed' = TRUE
       ELSE UNCHANGED <<is_locked_, pmu_pc, h_unlock_at, h_timeout_fixed>>
    /\ UNCHANGED <<devices_, dev_initialized, dev_suspended, h_suspends,
                   is_suspended_, last_unlock_time_, idle_timeout_, now>>

\* then dev_mgr_.resume_all() (part_005:43)
PmuLockResume ==
    /\ pmu_pc = "lock_resume"
    /\ dev_suspended' = ResumeAllState(devices_, dev_initialized, dev_suspended)
    /\ dev_ops' = Broadcast("resume", devices_)
    /\ h_suspends' = ResumeCounted(devices_, h_suspends)
    /\ mgr_calls' = <<"resume_all">>
    /\ pmu_pc' = "lock_clear"
    /\ UNCHANGED <<devices_, dev_initialized, is_locked_, is_suspended_,
                   last_unlock_time_, idle_timeout_, now, histVars>>

\* then is_suspended_ = false (part_005:44)
PmuLockClear ==
    /\ pmu_pc = "lock_clear"
    /\ is_suspended_' = FALSE
    /\ pmu_pc' = "idle"
    /\ UNCHANGED <<regVars, is_locked_, last_unlock_time_, idle_timeout_, now,
                   mgr_calls, histVars>>

\* loop(), statement by statement: the flags and the clock are read first
\* (part_005:88-96)
PmuLoopTest ==
    /\ loop_pc = "idle"
    /\ Called("loop", Null)
    /\ dev_ops' = <<>>
    /\ mgr_calls' = <<>>
    /\ loop_pc' = IF ~(is_locked_ \/ is_suspended_)
                     /\ TimedOut(now, last_unlock_time_, idle_timeout_)
                  THEN "loop_suspend" ELSE "idle"
    /\ UNCHANGED <<devices_, dev_initialized, dev_suspended, h_suspends,
                   is_locked_, is_suspended_, last_unlock_time_, idle_timeout_,
                   now, pmu_pc, h_unlock_at, h_timeout_fixed>>

\* then dev_mgr_.suspend_all(); is_suspended_ = true (part_005:100-101)
PmuLoopSuspend ==
    /\ loop_pc = "loop_suspend"
    /\ Called("loop:suspend_all", Null)
    /\ dev_suspended' = SuspendAllState(devices_, dev_initialized, dev_suspended)
    /\ dev_ops' = Broadcast("suspend", devices_)
    /\ h_suspends' = SuspendCounted(devices_, h_suspends)
    /\ mgr_calls' = <<"suspend_all">>
    /\ is_suspended_' = TRUE
    /\ loop_pc' = "idle"
    /\ UNCHANGED <<devices_, dev_initialized, is_locked_, last_unlock_time_,
                   idle_timeout_, now, pmu_pc, h_unlock_at, h_timeout_fixed>>

(***************************************************************************)
(* event_bus                                                               *)
(***************************************************************************)
Contains(lst, l) == \E i \in 1..Len(lst) : lst[i] = l

\* erase(remove_if(.., wp.expired()), ..)
PruneExpired(lst, alv) ==
    LET Live(x) == x \in alv IN SelectSeq(lst, Live)

TableGet(tbl, t) == IF t \in DOMAIN tbl THEN tbl[t] ELSE <<>>

TablePut(tbl, t, lst) ==
    [k \in DOMAIN tbl \cup {t} |-> IF k = t THEN lst ELSE tbl[k]]

\* subscribe() without the already-registered test
subscribe_list_nocheck(lst, l, alv) == Append(PruneExpired(lst, alv), l)

\* the vector of a type after subscribe(type, l), l not null
subscribe_list(lst, l, alv) ==
    LET live == PruneExpired(lst, alv)
    IN IF Contains(live, l) THEN live ELSE Append(live, l)

Remove(lst, l) == LET Keep(x) == x # l IN SelectSeq(lst, Keep)

\* unsubscribe() that drops only the expired entries
unsubscribe_list_deadonly(lst, l, alv) == PruneExpired(lst, alv)

\* unsubscribe() that drops the given listener and keeps expired entries
unsubscribe_list_keepdead(lst, l, alv) == Remove(lst, l)

\* the vector of a type after unsubscribe(type, l): !sp || sp == listener
unsubscribe_list(lst, l, alv) ==
    LET Keep(x) == x \in alv /\ x # l IN SelectSeq(lst, Keep)

\* publish() without the pruning pass
publish_list_noprune(lst, alv) == lst

\* the vector of a type after publish(): expired entries erased
publish_list(lst, alv) == PruneExpired(lst, alv)

\* publish() walking the vector from the back
publish_calls_reversed(lst, alv) ==
    LET live == PruneExpired(publish_list(lst, alv), alv)
    IN [i \in 1..Len(live) |-> live[Len(live) + 1 - i]]

\* the on_event calls of publish(): each entry whose lock() succeeds
publish_calls(lst, alv) == PruneExpired(publish_list(lst, alv), alv)

BusSubscribe(t, l) ==
    /\ Called("subscribe", <<t, l>>)
    /\ delivered' = <<>>
    /\ h_expired' = 0
    /\ IF l = Null
       THEN UNCHANGED <<listeners_, h_order, h_unsub>>
       ELSE /\ listeners_' = TablePut(listeners_, t,
                   subscribe_list(TableGet(listeners_, t), l, alive))
            /\ h_order' = [h_order EXCEPT ![t] =
                   IF Contains(@, l) THEN @ ELSE Append(@, l)]
            /\ h_unsub' = h_unsub \ {<<t, l>>}
    /\ UNCHANGED alive

BusUnsubscribe(t, l) ==
    /\ Called("unsubscribe", <<t, l>>)
    /\ delivered' = <<>>
    /\ h_expired' = 0
    /\ IF l = Null
       THEN UNCHANGED <<listeners_, h_order, h_unsub>>
       ELSE /\ listeners_' =
                   IF t \in DOMAIN listeners_
                   THEN [listeners_ EXCEPT ![t] = unsubscribe_list(@, l, alive)]
                   ELSE listeners_
            /\ h_order' = [h_order EXCEPT ![t] = Remove(@, l)]
            /\ h_unsub' = IF Contains(h_order[t], l)
                          THEN h_unsub \cup {<<t, l>>} ELSE h_unsub
    /\ UNCHANGED alive

BusPublish(t) ==
    /\ Called("publish", <<t, Null>>)
    /\ h_expired' = Cardinality({i \in 1..Len(TableGet(listeners_, t)) :
                                     listeners_[t][i] \notin alive})
    /\ IF t \in DOMAIN listeners_
       THEN /\ listeners_' = [listeners_ EXCEPT ![t] = publish_list(@, alive)]
            /\ delivered' = publish_calls(listeners_[t], alive)
       ELSE /\ delivered' = <<>>
            /\ UNCHANGED listeners_
    /\ UNCHANGED <<alive, h_order, h_unsub>>

\* the last shared_ptr to a listener goes away; the object never comes back
ReleaseListener(l) ==
    /\ l \in alive
    /\ alive' = alive \ {l}
    /\ Called("release", <<Null, l>>)
    /\ delivered' = <<>>
    /\ h_expired' = 0
    /\ h_order' = [t \in EventTypes |-> Remove(h_order[t], l)]
    /\ h_unsub' = {u \in h_unsub : u[2] # l}
    /\ UNCHANGED listeners_

(***************************************************************************)
(* event_bus::publish whose handlers call the bus for the same event type  *)
(***************************************************************************)
\* the event type of the delivery that is followed
ReType == "data_received"

\* event_system.cpp:80-99: the lookup, the pruning pass, and begin() and
\* end() of the range-for over the map's own vector
RePublish ==
    /\ re.pc = "idle"
    /\ ReType \in DOMAIN listeners_
    /\ Called("publish", <<ReType, Null>>)
    /\ h_expired' = Cardinality({i \in 1..Len(listeners_[ReType]) :
                                     listeners_[ReType][i] \notin alive})
    /\ listeners_' = [listeners_ EXCEPT ![ReType] = publish_list(@, alive)]
    /\ delivered' = <<>>
    /\ re' = [pc |-> "iter", idx |-> 1, start |-> listeners_'[ReType],
              calls |-> <<>>, removed |-> {}, dirty |-> FALSE]
    /\ UNCHANGED <<alive, h_order, h_unsub>>

\* event_system.cpp:102-107, one element per step.  begin() and end() were
\* taken before the first handler ran: once a handler has modified the
\* vector they are invalid, and the step may call any listener or none,
\* and the loop ends.
ReInvoke ==
    /\ re.pc = "iter"
    /\ LET lst == listeners_[ReType]
       IN IF re.dirty
          THEN \E l \in alive \cup {Null} :
                  /\ re' = [re EXCEPT !.pc = "idle",
                                      !.calls = IF l = Null THEN @
                                                ELSE Append(@, l)]
                  /\ Called("on_event", <<ReType, l>>)
          ELSE IF re.idx <= Len(lst)
          THEN IF lst[re.idx] \in alive
               THEN /\ re' = [re EXCEPT !.pc = "handler",
                                        !.calls = Append(@, lst[re.idx])]
                    /\ Called("on_event", <<ReType, lst[re.idx]>>)
               ELSE /\ re' = [re EXCEPT !.idx = @ + 1]
                    /\ Called("on_event", <<ReType, Null>>)
          ELSE /\ re' = [re EXCEPT !.pc = "idle"]
               /\ Called("publish:return", <<ReType, Null>>)
    /\ UNCHANGED <<busVars>>

\* the handler returns without calling the bus
ReHandlerReturn ==
    /\ re.pc = "handler"
    /\ Called("on_event:return", <<ReType, Null>>)
    /\ re' = [re EXCEPT !.pc = "iter", !.idx = @ + 1]
    /\ UNCHANGED <<busVars>>

\* the handler calls subscribe(ReType, l) and returns
ReHandlerSubscribe(l) ==
    /\ re.pc = "handler"
    /\ BusSubscribe(ReType, l)
    /\ re' = [re EXCEPT !.pc = "iter", !.idx = @ + 1,
                        !.dirty = @ \/ listeners_' # listeners_]

\* the handler calls unsubscribe(ReType, l) and returns
ReHandlerUnsubscribe(l) ==
    /\ re.pc = "handler"
    /\ BusUnsubscribe(ReType, l)
    /\ re' = [re EXCEPT !.pc = "iter", !.idx = @ + 1,
                        !.removed = @ \cup {l},
                        !.dirty = @ \/ listeners_' # listeners_]

\* the handler calls publish for ReType, whose handlers return at once,
\* and returns
ReHandlerPublish ==
    /\ re.pc = "handler"
    /\ BusPublish(ReType)
    /\ re' = [re EXCEPT !.pc = "iter", !.idx = @ + 1,
                        !.dirty = @ \/ listeners_' # listeners_]

(***************************************************************************)
(* event_bus, one statement at a time, called from several contexts.  No   *)
(* statement of subscribe/unsubscribe/publish takes a lock.                *)
(***************************************************************************)
\* the contexts whose delivery loop walks the vector of type t
Iterating(t, self) ==
    {c \in Contexts \ {self} : cpc[c] = "pub_iter" /\ carg[c][1] = t}

\* a write to the vector of type t by context self
WriteList(self, t, lst) ==
    /\ listeners_' = TablePut(listeners_, t, lst)
    /\ cdirty' = [c \in Contexts |->
           IF c \in Iterating(t, self) /\ lst # TableGet(listeners_, t)
           THEN TRUE ELSE cdirty[c]]

CtxCall(c, op, t, l) ==
    /\ cpc[c] = "idle"
    /\ ccalls[c] < MaxCtxCalls
    /\ ccalls' = [ccalls EXCEPT ![c] = ccalls[c] + 1]
    /\ cpc' = [cpc EXCEPT ![c] = op]
    /\ carg' = [carg EXCEPT ![c] = <<t, l>>]
    /\ UNCHANGED <<listeners_, alive, cidx, cdirty, cinv>>

\* event_system.cpp:23-32
CtxSubscribePrune(c) ==
    /\ cpc[c] = "subscribe"
    /\ WriteList(c, carg[c][1],
                 PruneExpired(TableGet(listeners_, carg[c][1]), alive))
    /\ cpc' = [cpc EXCEPT ![c] = "sub_find"]
    /\ UNCHANGED <<alive, carg, cidx, cinv, ccalls>>

\* event_system.cpp:35-44
CtxSubscribeFind(c) ==
    /\ cpc[c] = "sub_find"
    /\ cpc' = [cpc EXCEPT ![c] =
           IF Contains(TableGet(listeners_, carg[c][1]), carg[c][2])
           THEN "idle" ELSE "sub_push"]
    /\ UNCHANGED <<listeners_, alive, carg, cidx, cdirty, cinv, ccalls>>

\* event_system.cpp:47
CtxSubscribePush(c) ==
    /\ cpc[c] = "sub_push"
    /\ WriteList(c, carg[c][1],
                 Append(TableGet(listeners_, carg[c][1]), carg[c][2]))
    /\ cpc' = [cpc EXCEPT ![c] = "idle"]
    /\ UNCHANGED <<alive, carg, cidx, cinv, ccalls>>

\* event_system.cpp:58-74
CtxUnsubscribeErase(c) ==
    /\ cpc[c] = "unsubscribe"
    /\ IF carg[c][1] \in DOMAIN listeners_
       THEN WriteList(c, carg[c][1],
                unsubscribe_list(listeners_[carg[c][1]], carg[c][2], alive))
       ELSE UNCHANGED <<listeners_, cdirty>>
    /\ cpc' = [cpc EXCEPT ![c] = "idle"]
    /\ UNCHANGED <<alive, carg, cidx, cinv, ccalls>>

\* event_system.cpp:81-96
CtxPublishPrune(c) ==
    /\ cpc[c] = "publish"
    /\ IF carg[c][1] \in DOMAIN listeners_
       THEN /\ WriteList(c, carg[c][1],
                         publish_list(listeners_[carg[c][1]], alive))
            /\ cpc' = [cpc EXCEPT ![c] = "pub_iter"]
            /\ cidx' = [cidx EXCEPT ![c] = 1]
       ELSE /\ cpc' = [cpc EXCEPT ![c] = "idle"]
            /\ UNCHANGED <<listeners_, cdirty, cidx>>
    /\ UNCHANGED <<alive, carg, cinv, ccalls>>

\* event_system.cpp:102-107, one element per step.  Once another context
\* has rewritten the vector the iterators are invalid: the step may call
\* any listener or none, and the loop ends.
CtxPublishIter(c) ==
    /\ cpc[c] = "pub_iter"
    /\ LET lst == TableGet(listeners_, carg[c][1])
       IN IF cdirty[c]
          THEN /\ \E l \in alive \cup {Null} : cinv' = [cinv EXCEPT ![c] = l]
               /\ cpc' = [cpc EXCEPT ![c] = "idle"]
               /\ cdirty' = [cdirty EXCEPT ![c] = FALSE]
               /\ UNCHANGED cidx
          ELSE IF cidx[c] <= Len(lst)
          THEN /\ cinv' = [cinv EXCEPT ![c] =
                      IF lst[cidx[c]] \in alive THEN lst[cidx[c]] ELSE Null]
               /\ cidx' = [cidx EXCEPT ![c] = cidx[c] + 1]
               /\ UNCHANGED <<cpc, cdirty>>
          ELSE /\ cpc' = [cpc EXCEPT ![c] = "idle"]
               /\ UNCHANGED <<cidx, cdirty, cinv>>
    /\ UNCHANGED <<listeners_, alive, carg, ccalls>>

CtxRelease(l) ==
    /\ l \in alive
    /\ alive' = alive \ {l}
    /\ UNCHANGED <<listeners_, ctxVars>>

(***************************************************************************)
(* pmu::enter_deep_sleep and the handlers of the pre-sleep event           *)
(***************************************************************************)
\* what on_event of listener l does for an event of type t
HandlerEffects(l, t) ==
    IF t # "enter_deep_sleep" THEN <<>>
    ELSE IF l = BatHandle
         THEN IF battery_device_ /\ bat_initialized
              THEN << <<"charging", "off", 0>> >> ELSE <<>>
    ELSE IF l = NetHandle
         THEN IF tcp_connected_ THEN << <<"tcp", "close", sock_>> >> ELSE <<>>
    ELSE <<>>

RECURSIVE DeliverEffects(_, _)
DeliverEffects(calls, t) ==
    IF calls = <<>> THEN <<>>
    ELSE << <<"on_event", t, Head(calls)>> >> \o HandlerEffects(Head(calls), t)
         \o DeliverEffects(Tail(calls), t)

\* event_bus::publish(t) seen from its caller: every handler has returned
\* when publish returns
PublishEffects(t) ==
    << <<"publish", t, 0>> >>
    \o DeliverEffects(publish_calls(TableGet(listeners_, t), alive), t)

\* the bus side of a publish made inside another operation
PublishInside(t) ==
    /\ h_expired' = Cardinality({i \in 1..Len(TableGet(listeners_, t)) :
                                     listeners_[t][i] \notin alive})
    /\ delivered' = publish_calls(TableGet(listeners_, t), alive)
    /\ listeners_' = IF t \in DOMAIN listeners_
                     THEN [listeners_ EXCEPT ![t] = publish_list(@, alive)]
                     ELSE listeners_
    /\ UNCHANGED <<alive, h_order, h_unsub>>

\* sleep_time_ms * 1000 in uint32_t arithmetic, as <<high, low>> halves
MsToUs(ms) ==
    LET lo == (ms % HALF) * 1000
        hi == (ms \div HALF) * 1000 + lo \div HALF
    IN <<hi % HALF, lo % HALF>>

\* enter_deep_sleep that arms the wake-up timer whatever the argument
WakeTimer_always(ms) == MsToUs(ms)

\* the wake-up timer: armed with sleep_time_ms * 1000 when
\* sleep_time_ms > 0, left unarmed (the empty tuple) otherwise
WakeTimer(ms) == IF ms > 0 THEN MsToUs(ms) ELSE <<>>

PmuEnterDeepSleep(ms) ==
    /\ pmu_pc = "idle"
    /\ Called("enter_deep_sleep", ms)
    /\ PublishInside("enter_deep_sleep")
    /\ charge_pin' = IF BatHandle \in Range(delivered')
                        /\ battery_device_ /\ bat_initialized
                     THEN 0 ELSE charge_pin
    /\ tcp_connected_' = IF NetHandle \in Range(delivered')
                         THEN FALSE ELSE tcp_connected_
    /\ sock_' = IF NetHandle \in Range(delivered') /\ tcp_connected_
                THEN 0 - 1 ELSE sock_
    /\ wifi_connected_' = IF NetHandle \in Range(delivered')
                          THEN FALSE ELSE wifi_connected_
    /\ wake_timer_us' = WakeTimer(ms)
    /\ effects' = PublishEffects("enter_deep_sleep")
                  \o << <<"delay", "ms", SLEEP_GRACE_MS>> >>
                  \o (IF wake_timer_us' # <<>>
                      THEN << <<"timer", "armed", 0>> >> ELSE <<>>)
                  \o << <<"halt", "", 0>> >>
    /\ halted' = TRUE
    /\ dev_ops' = <<>>
    /\ mgr_calls' = <<>>
    /\ UNCHANGED <<devices_, dev_initialized, dev_suspended, h_suspends,
                   is_locked_, is_suspended_, last_unlock_time_, idle_timeout_,
                   now, pmu_pc, h_unlock_at, h_timeout_fixed, ctxVars,
                   bat_initialized, battery_device_, current_state_,
                   charging_state_, charge_percentage_, low_battery_threshold_,
                   critical_battery_threshold_, last_sample,
                   temp_warning_active_, h_last_thermal, h_scenario,
                   net_created, monVars, h_ret, stepVars>>

(***************************************************************************)
(* battery_device and battery_manager                                      *)
(***************************************************************************)
Abs(x) == IF x < 0 THEN 0 - x ELSE x

\* what a call returns: nothing, a bool, a number with its unit, or a name
Void == <<"void", 0, "">>
Bool(b) == <<"bool", IF b THEN 1 ELSE 0, "">>

\* what the sensor reports for the physical quantities v, c, t
SensorVoltage(v) == IF bat_initialized THEN v ELSE BATTERY_DEFAULT_VOLTAGE
SensorCharging == bat_initialized /\ charge_pin = 1
SensorCurrent(c) ==
    IF ~bat_initialized THEN BATTERY_DEFAULT_CURRENT
    ELSE IF ~SensorCharging THEN Abs(c) ELSE c
SensorTemperature(t) == IF bat_initialized THEN t ELSE BATTERY_DEFAULT_TEMP

\* calculate_percentage: linear map, clamped, truncated to an int
calculate_percentage(voltage) ==
    IF voltage <= BATTERY_MIN_VOLTAGE THEN 0
    ELSE IF voltage >= BATTERY_MAX_VOLTAGE THEN 100
    ELSE ((voltage - BATTERY_MIN_VOLTAGE) * 100)
         \div (BATTERY_MAX_VOLTAGE - BATTERY_MIN_VOLTAGE)

\* the charging state with the three current thresholds made inclusive
ChargingStateOf_inclusive(is_charging, current, percentage) ==
    IF ~is_charging THEN "not_charging"
    ELSE IF current <= 0 - 500 THEN "fast_charging"
    ELSE IF current <= 0 - 100 THEN "slow_charging"
    ELSE IF current <= 0 - 10 THEN "trickle_charging"
    ELSE IF percentage >= 100 THEN "complete"
    ELSE "error"

\* the if-chain of lines 398-412
ChargingStateOf(is_charging, current, percentage) ==
    IF ~is_charging THEN "not_charging"
    ELSE IF current < 0 - 500 THEN "fast_charging"
    ELSE IF current < 0 - 100 THEN "slow_charging"
    ELSE IF current < 0 - 10 THEN "trickle_charging"
    ELSE IF percentage >= 100 THEN "complete"
    ELSE "error"

\* the if-chain of update_battery_state, in its order
BatteryStateOf(is_charging, percentage, low, critical) ==
    IF is_charging THEN "charging"
    ELSE IF percentage <= critical THEN "critical"
    ELSE IF percentage <= low THEN "low"
    ELSE IF percentage > HIGH_PERCENTAGE THEN "high"
    ELSE IF percentage >= 100 THEN "full"
    ELSE "normal"

\* the event of a state change with low reported as critical
StateEvent_lowascritical(state) ==
    CASE state \in {"low", "critical"} -> "battery_critical"
      [] state \in {"normal", "high", "full"} -> "battery_normal"
      [] state = "charging" -> "charging_started"

\* the event type published when the state has changed to state
StateEvent(state) ==
    CASE state = "low" -> "battery_low"
      [] state = "critical" -> "battery_critical"
      [] state \in {"normal", "high", "full"} -> "battery_normal"
      [] state = "charging" -> "charging_started"

\* the thermal guard that ends an excursion at the warning threshold itself
ThermalEnds_atwarning(temperature, active) ==
    temperature <= BATTERY_TEMP_WARNING /\ active

ThermalCritical(temperature) == temperature > BATTERY_TEMP_CRITICAL
ThermalEnds(temperature, active) ==
    temperature < BATTERY_TEMP_WARNING /\ active

\* the thermal guard of one tick, in statement order (lines 415-435)
ThermalEffects(temperature, active) ==
    IF ThermalCritical(temperature)
    THEN << <<"charging", "off", 0>> >>
         \o (IF ~active THEN PublishEffects("battery_temp_high") ELSE <<>>)
    ELSE IF ThermalEnds(temperature, active)
    THEN << <<"charging", "on", 0>> >> \o PublishEffects("battery_temp_normal")
    ELSE <<>>

\* the event types a sequence of effects has published, in order
RECURSIVE Published(_)
Published(eff) ==
    IF eff = <<>> THEN <<>>
    ELSE (IF Head(eff)[1] = "publish" THEN <<Head(eff)[2]>> ELSE <<>>)
         \o Published(Tail(eff))

\* history: progress of the reference discharge run after one more tick
ScenarioStep(k, percentage, is_charging, low, critical) ==
    IF is_charging \/ low # 20 \/ critical # 10 THEN 0
    ELSE IF k < Len(ScenarioPcts) /\ percentage = ScenarioPcts[k + 1] THEN k + 1
    ELSE IF percentage = ScenarioPcts[1] THEN 1
    ELSE 0

\* update_battery_state() from the thermal guard to its end (lines
\* 414-495), on the locals temperature, is_charging and percentage
FinishUpdate(tbl, temperature, is_charging, percentage) ==
    /\ charge_pin' =
           IF ThermalCritical(temperature) THEN 0
           ELSE IF ThermalEnds(temperature, temp_warning_active_) THEN 1
           ELSE charge_pin
    /\ temp_warning_active_' =
           IF ThermalCritical(temperature) THEN TRUE
           ELSE IF ThermalEnds(temperature, temp_warning_active_) THEN FALSE
           ELSE temp_warning_active_
    /\ current_state_' =
           BatteryStateOf(is_charging, percentage,
                          low_battery_threshold_, critical_battery_threshold_)
    /\ effects' =
           ThermalEffects(temperature, temp_warning_active_)
           \o (IF current_state_' # current_state_
               THEN PublishEffects(StateEvent(current_state_')) ELSE <<>>)
    /\ LET pub == Published(effects')
       IN /\ listeners_' = [k \in DOMAIN tbl |->
                 IF k \in Range(pub) THEN publish_list(tbl[k], alive)
                 ELSE tbl[k]]
          /\ delivered' = IF pub = <<>> THEN <<>>
                          ELSE publish_calls(TableGet(tbl, pub[Len(pub)]), alive)
          /\ h_expired' = Cardinality(UNION {
                 {<<k, i>> : i \in {j \in 1..Len(tbl[k]) :
                                       tbl[k][j] \notin alive}} :
                 k \in Range(pub) \cap DOMAIN tbl})
          /\ h_last_thermal' =
                 IF pub # <<>> /\ pub[1] \in {"battery_temp_high",
                                              "battery_temp_normal"}
                 THEN pub[1] ELSE h_last_thermal
    /\ h_scenario' = ScenarioStep(h_scenario, percentage,
                                  is_charging, low_battery_threshold_,
                                  critical_battery_threshold_)

\* update_battery_state() with a bound sensor whose quantities are v, c, t;
\* tbl is the subscription table it finds
\* (is_charging is sampled before the thermal guard moves the pin)
UpdateBatteryState(tbl, v, c, t) ==
    /\ last_sample' =
           <<SensorVoltage(v), SensorCurrent(c), SensorTemperature(t)>>
    /\ charge_percentage_' = calculate_percentage(last_sample'[1])
    /\ charging_state_' =
           ChargingStateOf(SensorCharging, last_sample'[2], charge_percentage_')
    /\ FinishUpdate(tbl, last_sample'[3], SensorCharging, charge_percentage_')

\* battery_device::init: enable_charging() runs before initialized_ is set
BatDeviceInit ==
    /\ Called("battery_device::init", Null)
    /\ h_ret' = <<"int", 0, "">>
    /\ charge_pin' = IF bat_initialized THEN 1 ELSE charge_pin
    /\ bat_initialized' = TRUE
    /\ UNCHANGED <<battery_device_, current_state_, charging_state_,
                   charge_percentage_, low_battery_threshold_,
                   critical_battery_threshold_, last_sample,
                   temp_warning_active_, h_last_thermal, h_scenario,
                   busVars, effects>>

\* the entries battery_manager::init adds for one type; the shared_ptr it
\* subscribes with is a local of init and is gone when init returns
InitSubscribe(tbl, t) ==
    TablePut(tbl, t, Append(PruneExpired(TableGet(tbl, t), alive), BatHandle))

\* battery_manager::init(device) with a sensor: binds it, subscribes and
\* makes the first update
BatteryInit(v, c, t) ==
    /\ Called("battery_manager::init", <<v, c, t>>)
    /\ h_ret' = Bool(TRUE)
    /\ battery_device_' = TRUE
    /\ UpdateBatteryState(
           InitSubscribe(InitSubscribe(InitSubscribe(listeners_,
               "network_connected"), "network_disconnected"),
               "enter_deep_sleep"), v, c, t)
    /\ UNCHANGED <<bat_initialized, low_battery_threshold_,
                   critical_battery_threshold_, alive, h_order, h_unsub>>

\* update_battery_state() as a whole, with or without a bound sensor
TickBody(v, c, t) ==
    /\ IF battery_device_
       THEN UpdateBatteryState(listeners_, v, c, t)
       ELSE /\ effects' = <<>>
            /\ delivered' = <<>>
            /\ h_expired' = 0
            /\ UNCHANGED <<listeners_, last_sample, charge_percentage_,
                           charging_state_, charge_pin, temp_warning_active_,
                           current_state_, h_last_thermal, h_scenario>>
    /\ UNCHANGED <<bat_initialized, battery_device_, low_battery_threshold_,
                   critical_battery_threshold_, alive, h_order, h_unsub>>

\* battery_manager::loop() when the check interval has passed
BatTick(v, c, t) ==
    /\ Called("update_battery_state", <<v, c, t>>)
    /\ h_ret' = Void
    /\ TickBody(v, c, t)

\* the time between two updates that loop() waits for; linkdown: the
\* monitor was last told that the link is down
CheckInterval(linkdown) == BATTERY_CHECK_INTERVAL_MS

\* battery_manager::loop() called at time bat_time
BatLoop(v, c, t) ==
    /\ Called("battery_manager::loop", <<v, c, t>>)
    /\ h_ret' = Void
    /\ IF bat_time - last_check_time >= CheckInterval(h_linkdown)
       THEN /\ last_check_time' = bat_time
            /\ TickBody(v, c, t)
            /\ h_tick_after' = h_linkdown
       ELSE UNCHANGED <<last_check_time, h_tick_after, batVars, busVars,
                        effects>>
    /\ UNCHANGED <<mutex_, upd_pc, upd_in, get_at, bat_time, h_linkdown>>

\* battery_manager::on_event for the two network events: each only logs
BatOnNetworkEvent(type) ==
    /\ Called("battery_manager::on_event", type)
    /\ h_ret' = Void
    /\ h_linkdown' = (type = "network_disconnected")
    /\ h_tick_after' = FALSE
    /\ UNCHANGED <<batVars, busVars, effects, mutex_, upd_pc, upd_in, get_at,
                   bat_time, last_check_time>>

\* the tick counter of the scheduler moves on
BatAdvance ==
    /\ bat_time < MaxBatTime
    /\ Called("advance_ticks", Null)
    /\ bat_time' = bat_time + BatTimeStep
    /\ UNCHANGED <<batVars, busVars, effects, mutex_, upd_pc, upd_in, get_at,
                   last_check_time, h_linkdown, h_tick_after, h_ret>>

\* battery_manager::enable_charging / disable_charging
BatSetCharging(on) ==
    /\ Called("set_charging", IF on THEN 1 ELSE 0)
    /\ h_ret' = Bool(battery_device_ /\ bat_initialized)
    /\ charge_pin' = IF battery_device_ /\ bat_initialized
                     THEN (IF on THEN 1 ELSE 0) ELSE charge_pin
    /\ UNCHANGED <<bat_initialized, battery_device_, current_state_,
                   charging_state_, charge_percentage_, low_battery_threshold_,
                   critical_battery_threshold_, last_sample,
                   temp_warning_active_, h_last_thermal, h_scenario,
                   busVars, effects>>

\* a threshold setter that brings an out-of-range value to the nearest bound
ThresholdAfter_clamp(cur, percentage, lo, hi) ==
    IF percentage < lo THEN lo ELSE IF percentage > hi THEN hi ELSE percentage

\* the threshold after a setter call: `if (percentage < lo || percentage >
\* hi) return;` and then the assignment
ThresholdAfter(cur, percentage, lo, hi) ==
    IF percentage < lo \/ percentage > hi THEN cur ELSE percentage

\* the ranges tested by the two setters
LOW_THRESHOLD_MIN == 5
LOW_THRESHOLD_MAX == 50
CRITICAL_THRESHOLD_MIN == 1
CRITICAL_THRESHOLD_MAX == 20

BatSetLowThreshold(percentage) ==
    /\ Called("set_low_battery_threshold", percentage)
    /\ h_ret' = Void
    /\ low_battery_threshold_' =
          ThresholdAfter(low_battery_threshold_, percentage,
                         LOW_THRESHOLD_MIN, LOW_THRESHOLD_MAX)
    /\ UNCHANGED <<bat_initialized, charge_pin, battery_device_,
                   current_state_, charging_state_, charge_percentage_,
                   critical_battery_threshold_, last_sample,
                   temp_warning_active_, h_last_thermal, h_scenario,
                   busVars, effects>>

BatSetCriticalThreshold(percentage) ==
    /\ Called("set_critical_battery_threshold", percentage)
    /\ h_ret' = Void
    /\ critical_battery_threshold_' =
          ThresholdAfter(critical_battery_threshold_, percentage,
                         CRITICAL_THRESHOLD_MIN, CRITICAL_THRESHOLD_MAX)
    /\ UNCHANGED <<bat_initialized, charge_pin, battery_device_,
                   current_state_, charging_state_, charge_percentage_,
                   low_battery_threshold_, last_sample,
                   temp_warning_active_, h_last_thermal, h_scenario,
                   busVars, effects>>

\* battery_manager::init(nullptr)
BatteryInitNull ==
    /\ Called("battery_manager::init(nullptr)", Null)
    /\ h_ret' = Bool(FALSE)
    /\ effects' = <<>>
    /\ delivered' = <<>>
    /\ h_expired' = 0
    /\ UNCHANGED <<batVars, listeners_, alive, h_order, h_unsub>>

\* the last shared_ptr to the sensor goes away: battery_device_ expires.
\* A sensor object made afterwards starts uninitialised.
BatRelease ==
    /\ battery_device_
    /\ Called("release_sensor", Null)
    /\ h_ret' = Void
    /\ battery_device_' = FALSE
    /\ bat_initialized' = FALSE
    /\ UNCHANGED <<charge_pin, current_state_, charging_state_,
                   charge_percentage_, low_battery_threshold_,
                   critical_battery_threshold_, last_sample,
                   temp_warning_active_, h_last_thermal, h_scenario,
                   busVars, effects>>

\* a getter that reads the sensor whether or not one is bound
GetterValue_live(bound, stored, live) == live

\* what get_voltage / get_current / get_temperature return: the sensor's
\* reading when battery_device_.lock() succeeds, the stored value otherwise
GetterValue(bound, stored, live) == IF bound THEN live ELSE stored

SensorGetters == {"get_voltage", "get_current", "get_temperature"}

\* one of the three getters that take mutex_; v, c, t are the physical
\* quantities at the time of the call
BatGet(g, v, c, t) ==
    /\ mutex_ = "free"
    /\ Called(g, <<v, c, t>>)
    /\ h_ret' =
          CASE g = "get_voltage" ->
                 <<"mV", GetterValue(battery_device_, last_sample[1],
                                     SensorVoltage(v)), "">>
            [] g = "get_current" ->
                 <<"mA", GetterValue(battery_device_, last_sample[2],
                                     SensorCurrent(c)), "">>
            [] g = "get_temperature" ->
                 <<"C", GetterValue(battery_device_, last_sample[3],
                                    SensorTemperature(t)), "">>
    /\ get_at' = upd_pc
    /\ UNCHANGED <<batVars, busVars, effects, mutex_, upd_pc, upd_in,
                   bat_time, last_check_time, h_linkdown, h_tick_after>>

StateGetters ==
    {"get_charge_percentage", "get_battery_state", "get_charging_state"}

\* one of the three getters that return a member without taking mutex_
BatGetState(g) ==
    /\ Called(g, Null)
    /\ h_ret' =
          CASE g = "get_charge_percentage" ->
                 <<"percent", charge_percentage_, "">>
            [] g = "get_battery_state" -> <<"battery_state", 0, current_state_>>
            [] g = "get_charging_state" ->
                 <<"charging_state", 0, charging_state_>>
    /\ get_at' = upd_pc
    /\ UNCHANGED <<batVars, busVars, effects, mutex_, upd_pc, upd_in,
                   bat_time, last_check_time, h_linkdown, h_tick_after>>

(***************************************************************************)
(* update_battery_state(), one group of statements at a time               *)
(***************************************************************************)
\* what a step of the update leaves alone besides the members it writes
UpdKeep == UNCHANGED <<bat_initialized, battery_device_,
                       low_battery_threshold_, critical_battery_threshold_,
                       alive, h_order, h_unsub, get_at, bat_time,
                       last_check_time, h_linkdown, h_tick_after>>

\* lines 375-380: the lock_guard is taken; without a sensor the function
\* returns and the guard is released
UpdBegin ==
    /\ upd_pc = "idle"
    /\ mutex_ = "free"
    /\ Called("update:lock", Null)
    /\ h_ret' = Void
    /\ IF battery_device_
       THEN mutex_' = "update" /\ upd_pc' = "locked"
       ELSE UNCHANGED <<mutex_, upd_pc>>
    /\ UNCHANGED <<batVars, busVars, effects, upd_in>>
    /\ UpdKeep

\* lines 383-391: the four readings, and the first writes of the tick
UpdSample(v, c, t) ==
    /\ upd_pc = "locked"
    /\ Called("update:sample", <<v, c, t>>)
    /\ upd_in' = <<SensorVoltage(v), SensorCurrent(c), SensorTemperature(t),
                   SensorCharging>>
    /\ last_sample' = <<upd_in'[1], upd_in'[2], upd_in'[3]>>
    /\ upd_pc' = "sampled"
    /\ UNCHANGED <<charge_pin, current_state_, charging_state_,
                   charge_percentage_, temp_warning_active_, h_last_thermal,
                   h_scenario, listeners_, delivered, h_expired, effects,
                   mutex_, h_ret>>
    /\ UpdKeep

\* lines 394-395
UpdPercentage ==
    /\ upd_pc = "sampled"
    /\ Called("update:percentage", Null)
    /\ charge_percentage_' = calculate_percentage(upd_in[1])
    /\ upd_pc' = "percentage"
    /\ UNCHANGED <<charge_pin, current_state_, charging_state_, last_sample,
                   temp_warning_active_, h_last_thermal, h_scenario,
                   listeners_, delivered, h_expired, effects, mutex_, upd_in,
                   h_ret>>
    /\ UpdKeep

\* lines 398-412
UpdCharging ==
    /\ upd_pc = "percentage"
    /\ Called("update:charging_state", Null)
    /\ charging_state_' =
          ChargingStateOf(upd_in[4], upd_in[2], charge_percentage_)
    /\ upd_pc' = "charging"
    /\ UNCHANGED <<charge_pin, current_state_, charge_percentage_,
                   last_sample, temp_warning_active_, h_last_thermal,
                   h_scenario, listeners_, delivered, h_expired, effects,
                   mutex_, upd_in, h_ret>>
    /\ UpdKeep

\* lines 414-495: the thermal guard, the last write of the tick
\* (current_state_), the publish, and the release of the lock_guard
UpdFinish ==
    /\ upd_pc = "charging"
    /\ Called("update:state", Null)
    /\ FinishUpdate(listeners_, upd_in[3], upd_in[4], charge_percentage_)
    /\ mutex_' = "free"
    /\ upd_pc' = "idle"
    /\ UNCHANGED <<charging_state_, charge_percentage_, last_sample, upd_in,
                   h_ret>>
    /\ UpdKeep

(***************************************************************************)
(* a listener that calls the monitor from on_event                         *)
(***************************************************************************)
\* the functions of battery_manager that take mutex_ (lines 258-318)
MonitorCalls == SensorGetters \cup {"enable_charging", "disable_charging"}

\* listener l is invoked by one of the publishes recorded in eff
Invokes(eff, l) ==
    \E i \in 1..Len(eff) : eff[i][1] = "on_event" /\ eff[i][3] = l

\* the body of monitor function g, run with mutex_ held
MonitorCall(g, v, c, t) ==
    /\ h_ret' =
          CASE g = "get_voltage" ->
                 <<"mV", GetterValue(battery_device_, last_sample[1],
                                     SensorVoltage(v)), "">>
            [] g = "get_current" ->
                 <<"mA", GetterValue(battery_device_, last_sample[2],
                                     SensorCurrent(c)), "">>
            [] g = "get_temperature" ->
                 <<"C", GetterValue(battery_device_, last_sample[3],
                                    SensorTemperature(t)), "">>
            [] OTHER -> Bool(battery_device_ /\ bat_initialized)
    /\ charge_pin' =
          IF g \in SensorGetters \/ ~(battery_device_ /\ bat_initialized)
          THEN charge_pin
          ELSE IF g = "enable_charging" THEN 1 ELSE 0
    /\ get_at' = upd_pc

\* what a step of a handler leaves alone besides the pin and the mutex
CbFrame == UNCHANGED <<bat_initialized, battery_device_, current_state_,
                       charging_state_, charge_percentage_,
                       low_battery_threshold_, critical_battery_threshold_,
                       last_sample, temp_warning_active_, h_last_thermal,
                       h_scenario, busVars, effects, mutex_, upd_pc, upd_in,
                       bat_time, last_check_time, h_linkdown, h_tick_after>>

\* lines 414-489 with the lock_guard of line 375 still held: the thermal
\* guard, the write of current_state_ and the publishes. When a publish
\* invokes the system listener the update waits inside publish() for
\* on_event to return; otherwise it returns and releases the guard.
UpdPublish ==
    /\ upd_pc = "charging"
    /\ Called("update:state", Null)
    /\ FinishUpdate(listeners_, upd_in[3], upd_in[4], charge_percentage_)
    /\ cb[1] = "none" \/ ~Invokes(effects', 1)
    /\ IF Invokes(effects', 1)
       THEN /\ upd_pc' = "delivering"
            /\ cb' = <<"in_on_event", "", "update">>
            /\ UNCHANGED mutex_
       ELSE /\ upd_pc' = "idle"
            /\ mutex_' = "free"
            /\ UNCHANGED cb
    /\ UNCHANGED <<charging_state_, charge_percentage_, last_sample, upd_in,
                   h_ret>>
    /\ UpdKeep

\* on_event has returned: publish() returns, then update_battery_state()
\* does and its lock_guard is released (line 495)
UpdReturn ==
    /\ upd_pc = "delivering"
    /\ cb[1] = "none"
    /\ Called("update:return", Null)
    /\ mutex_' = "free"
    /\ upd_pc' = "idle"
    /\ UNCHANGED <<batVars, busVars, effects, upd_in, h_ret, cb>>
    /\ UpdKeep

\* a publish made by another task (the Wi-Fi event handler) invokes the
\* system listener while no other handler of it runs
OtherPublish(type) ==
    /\ cb[1] = "none"
    /\ Called("publish", type)
    /\ PublishInside(type)
    /\ cb' = IF 1 \in Range(delivered') THEN <<"in_on_event", "", "other">>
             ELSE cb
    /\ UNCHANGED <<batVars, effects, monVars, h_ret>>

\* inside on_event the listener calls monitor function g: the call takes
\* mutex_ with a lock_guard, runs and returns when the mutex is free, and
\* waits for it otherwise
CbCall(g, v, c, t) ==
    /\ cb[1] = "in_on_event"
    /\ Called("on_event:call", g)
    /\ IF mutex_ = "free"
       THEN /\ MonitorCall(g, v, c, t)
            /\ cb' = <<"returned", g, cb[3]>>
       ELSE /\ cb' = <<"blocked", g, cb[3]>>
            /\ UNCHANGED <<charge_pin, get_at, h_ret>>
    /\ CbFrame

\* the holder has released mutex_: the waiting call runs and returns
CbAcquire(v, c, t) ==
    /\ cb[1] = "blocked"
    /\ mutex_ = "free"
    /\ Called("on_event:resume", cb[2])
    /\ MonitorCall(cb[2], v, c, t)
    /\ cb' = <<"returned", cb[2], cb[3]>>
    /\ CbFrame

\* on_event returns
CbReturn ==
    /\ cb[1] \in {"in_on_event", "returned"}
    /\ Called("on_event:return", Null)
    /\ cb' = <<"none", "", "none">>
    /\ UNCHANGED <<charge_pin, get_at, h_ret>>
    /\ CbFrame

\* main_task subscribes the system listener, which it owns for good
MainSubscribe ==
    /\ Called("main_subscribe", Null)
    /\ listeners_' = [k \in DOMAIN listeners_ \cup (AllEventTypes \ {"charging_started"}) |->
           IF k = "charging_started" THEN listeners_[k]
           ELSE subscribe_list(TableGet(listeners_, k), 1, alive)]
    /\ h_order' = [k \in AllEventTypes |->
           IF k = "charging_started" \/ Contains(h_order[k], 1) THEN h_order[k]
           ELSE Append(h_order[k], 1)]
    /\ h_unsub' = {x \in h_unsub : x[2] # 1}
    /\ delivered' = <<>>
    /\ h_expired' = 0
    /\ h_ret' = Void
    /\ UNCHANGED <<alive, batVars, effects>>

(***************************************************************************)
(* network_module                                                          *)
(***************************************************************************)
\* the constructor: the shared_ptr it subscribes with is a local of the
\* constructor and is gone when the constructor returns
NetCreate ==
    /\ ~net_created
    /\ Called("network_module", Null)
    /\ net_created' = TRUE
    /\ listeners_' = TablePut(listeners_, "enter_deep_sleep",
           Append(PruneExpired(TableGet(listeners_, "enter_deep_sleep"), alive),
                  NetHandle))
    /\ delivered' = <<>>
    /\ h_expired' = 0
    /\ UNCHANGED <<alive, h_order, h_unsub, wifi_connected_, tcp_connected_,
                   sock_>>

\* wifi_event_handler on IP_EVENT_STA_GOT_IP
NetGotIp ==
    /\ net_created
    /\ Called("got_ip", Null)
    /\ wifi_connected_' = TRUE
    /\ PublishInside("network_connected")
    /\ UNCHANGED <<net_created, tcp_connected_, sock_>>

\* connect_tcp(host, port); ok: the server accepts the connection
NetConnectTcp(ok) ==
    /\ net_created
    /\ Called("connect_tcp", IF ok THEN 1 ELSE 0)
    /\ IF tcp_connected_ \/ ~wifi_connected_
       THEN UNCHANGED <<tcp_connected_, sock_>>
       ELSE /\ tcp_connected_' = ok
            /\ sock_' = IF ok THEN 0 ELSE 0 - 1
    /\ delivered' = <<>>
    /\ h_expired' = 0
    /\ UNCHANGED <<net_created, wifi_connected_, listeners_, alive, h_order,
                   h_unsub>>

\* disconnect_tcp()
NetDisconnectTcp ==
    /\ net_created
    /\ Called("disconnect_tcp", Null)
    /\ tcp_connected_' = FALSE
    /\ sock_' = IF tcp_connected_ THEN 0 - 1 ELSE sock_
    /\ delivered' = <<>>
    /\ h_expired' = 0
    /\ UNCHANGED <<net_created, wifi_connected_, listeners_, alive, h_order,
                   h_unsub>>

(***************************************************************************)
(* network_module with its receive task                                    *)
(***************************************************************************)
\* connect_tcp(host, port) (lines 295-392); ok: the server accepts the
\* connection; made: xTaskCreate succeeds.  The receive task is created
\* only when task_handle_ is null.
NetConnectTcpTask(ok, made) ==
    /\ net_created
    /\ Called("connect_tcp", IF ok THEN 1 ELSE 0)
    /\ delivered' = <<>>
    /\ h_expired' = 0
    /\ IF tcp_connected_
       THEN /\ h_conn' = TRUE
            /\ UNCHANGED <<tcp_connected_, sock_, task_handle_, rx_pc>>
       ELSE IF ~wifi_connected_
       THEN /\ h_conn' = FALSE
            /\ UNCHANGED <<tcp_connected_, sock_, task_handle_, rx_pc>>
       ELSE IF ~ok
       THEN /\ h_conn' = FALSE
            /\ sock_' = 0 - 1
            /\ UNCHANGED <<tcp_connected_, task_handle_, rx_pc>>
       ELSE IF task_handle_
       THEN /\ h_conn' = TRUE
            /\ tcp_connected_' = TRUE
            /\ sock_' = 0
            /\ UNCHANGED <<task_handle_, rx_pc>>
       ELSE IF made
       THEN /\ h_conn' = TRUE
            /\ tcp_connected_' = TRUE
            /\ sock_' = 0
            /\ task_handle_' = TRUE
            /\ rx_pc' = "created"
       ELSE /\ h_conn' = FALSE
            /\ tcp_connected_' = FALSE
            /\ sock_' = 0 - 1
            /\ UNCHANGED <<task_handle_, rx_pc>>
    /\ UNCHANGED <<net_created, wifi_connected_, listeners_, alive, h_order,
                   h_unsub, rx_sock>>

\* disconnect_tcp() (lines 395-417): the flag, the socket, and a delay of
\* 100 ms when there is a task; the task is neither joined nor deleted
NetDisconnectTcpTask ==
    /\ NetDisconnectTcp
    /\ UNCHANGED rxVars

\* tcp_receive_task starts: `int sock = net->sock_;` and the first test of
\* `while (net->tcp_connected_)` (lines 250-254)
RxStart ==
    /\ rx_pc = "created"
    /\ Called("tcp_receive_task", Null)
    /\ rx_sock' = sock_
    /\ rx_pc' = IF tcp_connected_ THEN "recv" ELSE "exiting"
    /\ UNCHANGED <<netVars, busVars, task_handle_, h_conn>>

\* recv(sock, ..) returns (lines 256-286).  got: it returns data, which the
\* socket the task reads can do only while it is open; the event is
\* published and the loop condition tested again.  Otherwise it returns 0
\* or an error.
RxRecv(got) ==
    /\ rx_pc = "recv"
    /\ got => tcp_connected_ /\ rx_sock = sock_
    /\ Called("recv", IF got THEN 1 ELSE 0)
    /\ IF got
       THEN /\ PublishInside("data_received")
            /\ rx_pc' = IF tcp_connected_ THEN "recv" ELSE "exiting"
       ELSE /\ rx_pc' = "failed"
            /\ UNCHANGED busVars
    /\ UNCHANGED <<netVars, task_handle_, rx_sock, h_conn>>

\* net->disconnect_tcp(); break; (lines 261-262, 266-267)
RxFail ==
    /\ rx_pc = "failed"
    /\ NetDisconnectTcp
    /\ rx_pc' = "exiting"
    /\ UNCHANGED <<task_handle_, rx_sock, h_conn>>

\* net->task_handle_ = nullptr; vTaskDelete(NULL); (lines 290-291)
RxExit ==
    /\ rx_pc = "exiting"
    /\ Called("tcp_receive_task:exit", Null)
    /\ task_handle_' = FALSE
    /\ rx_pc' = "none"
    /\ UNCHANGED <<netVars, busVars, rx_sock, h_conn>>

\* what the network module and its task leave alone
NetTaskKeep == UNCHANGED <<regVars, pmuVars, ctxVars, h_unlock_at,
                           h_timeout_fixed, sleepVars, batVars, monVars,
                           h_ret, loop_pc, cb, re>>

NetKeep == UNCHANGED <<regVars, pmuVars, ctxVars, h_unlock_at, h_timeout_fixed,
                       sleepVars, batVars, monVars, h_ret, stepVars>>

\* what a task of the battery monitor leaves alone
TaskKeep == UNCHANGED <<regVars, pmuVars, ctxVars, h_unlock_at, h_timeout_fixed,
                        halted, wake_timer_us, netVars, stepVars>>

\* what an operation of the battery side leaves alone
BatKeep == UNCHANGED <<regVars, pmuVars, ctxVars, h_unlock_at, h_timeout_fixed,
                       halted, wake_timer_us, netVars, monVars, stepVars>>

vars == <<regVars, pmuVars, busVars, ctxVars, histVars, sleepVars, batVars,
          netVars, monVars, h_ret, stepVars>>

Init ==
    /\ devices_ = <<>>
    /\ dev_initialized = [d \in Devices |-> FALSE]
    /\ dev_suspended = [d \in Devices |-> FALSE]
    /\ dev_ops = <<>>
    /\ h_suspends = [d \in Devices |-> 0]
    /\ is_locked_ = FALSE
    /\ is_suspended_ = FALSE
    /\ now = 0
    /\ last_unlock_time_ = 0
    /\ \E seconds \in TimeoutArgs : idle_timeout_ = CtorTimeout(seconds)
    /\ mgr_calls = <<>>
    /\ pmu_pc = "idle"
    /\ listeners_ = <<>>
    /\ alive = Listeners
    /\ delivered = <<>>
    /\ cpc = [c \in Contexts |-> "idle"]
    /\ carg = [c \in Contexts |-> <<Null, Null>>]
    /\ cidx = [c \in Contexts |-> 0]
    /\ cdirty = [c \in Contexts |-> FALSE]
    /\ cinv = [c \in Contexts |-> Null]
    /\ ccalls = [c \in Contexts |-> 0]
    /\ halted = FALSE
    /\ wake_timer_us = <<>>
    /\ effects = <<>>
    /\ bat_initialized = FALSE
    /\ charge_pin = 0
    /\ battery_device_ = FALSE
    /\ current_state_ = "normal"
    /\ charging_state_ = "not_charging"
    /\ charge_percentage_ = 50
    /\ low_battery_threshold_ = BATTERY_DEFAULT_LOW_THRESHOLD
    /\ critical_battery_threshold_ = BATTERY_DEFAULT_CRITICAL_THRESHOLD
    /\ last_sample = <<0, 0, 25>>
    /\ temp_warning_active_ = FALSE
    /\ net_created = FALSE
    /\ wifi_connected_ = FALSE
    /\ tcp_connected_ = FALSE
    /\ sock_ = 0 - 1
    /\ mutex_ = "free"
    /\ upd_pc = "idle"
    /\ upd_in = <<0, 0, 0, FALSE>>
    /\ get_at = "idle"
    /\ bat_time = 0
    /\ last_check_time = 0
    /\ h_linkdown = FALSE
    /\ h_tick_after = FALSE
    /\ h_ret = Void
    /\ loop_pc = "idle"
    /\ cb = <<"none", "", "none">>
    /\ re = [pc |-> "idle", idx |-> 0, start |-> <<>>, calls |-> <<>>,
             removed |-> {}, dirty |-> FALSE]
    /\ task_handle_ = FALSE
    /\ rx_pc = "none"
    /\ rx_sock = 0 - 1
    /\ h_conn = FALSE
    /\ h_last_thermal = "none"
    /\ h_scenario = 0
    /\ h_order = [t \in AllEventTypes |-> <<>>]
    /\ h_unsub = {}
    /\ h_expired = 0
    /\ last_op = "ctor"
    /\ last_arg = Null
    /\ h_unlock_at = 0 - 1
    /\ h_timeout_fixed = TRUE

\* the same, the controller being built with its default timeout
InitDefault == Init /\ idle_timeout_ = CtorTimeout(0)

\* what an operation of one component leaves alone
RegKeep == UNCHANGED <<pmuVars, busVars, ctxVars, h_unlock_at, h_timeout_fixed,
                       sleepVars, batVars, netVars, monVars, h_ret, stepVars>>
PmuKeep == UNCHANGED <<busVars, ctxVars, sleepVars, batVars, netVars, monVars,
                       h_ret, stepVars>>
BusKeep == UNCHANGED <<regVars, pmuVars, ctxVars, h_unlock_at, h_timeout_fixed,
                       sleepVars, batVars, netVars, monVars, h_ret, stepVars>>
CtxKeep == UNCHANGED <<regVars, pmuVars, delivered, h_order, h_unsub, h_expired,
                       histVars, sleepVars, batVars, netVars, monVars, h_ret, stepVars>>

\* the registry on its own
NextRegistry ==
    \/ \E dev \in Devices \cup {Null} : RegisterDevice(dev) /\ RegKeep
    \/ \E fail \in SUBSET Devices : InitAll(fail) /\ RegKeep
    \/ \E fail \in SUBSET Devices : DeinitAll(fail) /\ RegKeep
    \/ SuspendAll /\ RegKeep
    \/ ResumeAll /\ RegKeep

SpecRegistry == Init /\ [][NextRegistry]_vars

\* the power controller over a registry that is filled and initialised
NextPmu ==
    \/ \E dev \in 1..NumPmuDevices : RegisterDevice(dev) /\ RegKeep
    \/ InitAll({}) /\ RegKeep
    \/ PmuLock /\ PmuKeep
    \/ PmuUnlock /\ PmuKeep
    \/ PmuLoop /\ PmuKeep
    \/ \E seconds \in TimeoutArgs : PmuSetIdleTimeout(seconds) /\ PmuKeep
    \/ AdvanceTime /\ PmuKeep

Spec == Init /\ [][NextPmu]_vars

\* the same, with lock() taken one statement at a time
NextPmuSteps ==
    \/ \E dev \in 1..NumPmuDevices : RegisterDevice(dev) /\ RegKeep
    \/ InitAll({}) /\ RegKeep
    \/ PmuLockBegin /\ PmuKeep
    \/ PmuLockResume /\ PmuKeep
    \/ PmuLockClear /\ PmuKeep
    \/ PmuUnlock /\ PmuKeep
    \/ PmuLoop /\ PmuKeep
    \/ AdvanceTime /\ PmuKeep

SpecPmuSteps == Init /\ [][NextPmuSteps]_vars

\* what a step of loop() in a context of its own leaves alone
LoopKeep == UNCHANGED <<busVars, ctxVars, sleepVars, batVars, netVars, monVars,
                        h_ret, cb, re, rxVars>>

\* lock() and unlock() in one context, loop() in another, each one
\* statement at a time
NextPmuTasks ==
    \/ \E dev \in 1..NumPmuDevices : RegisterDevice(dev) /\ RegKeep
    \/ InitAll({}) /\ RegKeep
    \/ PmuLockBegin /\ PmuKeep
    \/ PmuLockResume /\ PmuKeep
    \/ PmuLockClear /\ PmuKeep
    \/ PmuUnlock /\ PmuKeep
    \/ PmuLoopTest /\ LoopKeep
    \/ PmuLoopSuspend /\ LoopKeep
    \/ AdvanceTime /\ PmuKeep

SpecPmuTasks == Init /\ [][NextPmuTasks]_vars

\* the controller from its construction to its destruction
NextPmuLife ==
    \/ \E dev \in 1..NumPmuDevices : RegisterDevice(dev) /\ RegKeep
    \/ InitAll({}) /\ RegKeep
    \/ PmuLock /\ PmuKeep
    \/ PmuUnlock /\ PmuKeep
    \/ PmuLoop /\ PmuKeep
    \/ AdvanceTime /\ PmuKeep
    \/ PmuDestroy /\ PmuKeep

SpecPmuLife == Init /\ [][NextPmuLife]_vars

\* the controller with subscribers to the pre-sleep event, up to the halt
NextSleep ==
    \/ \E l \in alive :
          ~halted /\ BusSubscribe("enter_deep_sleep", l) /\ BusKeep
    \/ \E l \in Listeners : ~halted /\ ReleaseListener(l) /\ BusKeep
    \/ ~halted /\ PmuLock /\ PmuKeep
    \/ ~halted /\ PmuUnlock /\ PmuKeep
    \/ ~halted /\ PmuLoop /\ PmuKeep
    \/ ~halted /\ AdvanceTime /\ PmuKeep
    \/ \E ms \in SleepArgs : ~halted /\ PmuEnterDeepSleep(ms)

SpecSleep == Init /\ [][NextSleep]_vars

\* the battery monitor with its sensor and the system listener
NextBattery ==
    \/ BatDeviceInit /\ BatKeep
    \/ \E v \in Voltages, c \in Currents, t \in Temperatures :
          BatteryInit(v, c, t) /\ BatKeep
    \/ \E v \in Voltages, c \in Currents, t \in Temperatures :
          BatTick(v, c, t) /\ BatKeep
    \/ \E on \in BOOLEAN : BatSetCharging(on) /\ BatKeep
    \/ MainSubscribe /\ BatKeep

SpecBattery == InitDefault /\ [][NextBattery]_vars

\* readings offered to the monitor while its sensor comes and goes
ApiVoltages == {3060, 4020}
ApiTemperatures == {25, 60}

\* the battery monitor with and without a bound sensor
NextBatteryApi ==
    \/ BatDeviceInit /\ BatKeep
    \/ \E v \in ApiVoltages, t \in ApiTemperatures :
          BatteryInit(v, 100, t) /\ BatKeep
    \/ BatteryInitNull /\ BatKeep
    \/ \E v \in ApiVoltages, t \in ApiTemperatures :
          BatTick(v, 100, t) /\ BatKeep
    \/ \E on \in BOOLEAN : BatSetCharging(on) /\ BatKeep
    \/ \E g \in SensorGetters, v \in ApiVoltages, t \in ApiTemperatures :
          BatGet(g, v, 100, t) /\ TaskKeep
    \/ BatRelease /\ BatKeep
    \/ MainSubscribe /\ BatKeep

SpecBatteryApi == InitDefault /\ [][NextBatteryApi]_vars

\* arguments handed to the threshold setters: the ends of the two ranges and
\* their outer neighbours
LowArgs == {0 - 1, 4, 5, 50, 51}
CritArgs == {0 - 1, 0, 1, 20, 21}

\* the battery monitor whose thresholds are reconfigured between ticks
NextBatteryConfig ==
    \/ BatDeviceInit /\ BatKeep
    \/ \E v \in Voltages : BatteryInit(v, 100, 25) /\ BatKeep
    \/ \E v \in Voltages : BatTick(v, 100, 25) /\ BatKeep
    \/ \E on \in BOOLEAN : BatSetCharging(on) /\ BatKeep
    \/ \E percentage \in LowArgs : BatSetLowThreshold(percentage) /\ BatKeep
    \/ \E percentage \in CritArgs :
          BatSetCriticalThreshold(percentage) /\ BatKeep

SpecBatteryConfig == InitDefault /\ [][NextBatteryConfig]_vars

\* readings around the current thresholds and the ends of the voltage range
ChargeCurrents == {0 - 600, 0 - 500, 0 - 300, 0 - 100, 0 - 50, 0 - 10, 100}
ChargeVoltages == {2900, 3000, 3006, 3600, 4194, 4200, 4300}

\* the battery monitor over a sensor that charges and discharges
NextCharging ==
    \/ BatDeviceInit /\ BatKeep
    \/ \E v \in ChargeVoltages, c \in ChargeCurrents :
          BatteryInit(v, c, 25) /\ BatKeep
    \/ \E v \in ChargeVoltages, c \in ChargeCurrents :
          BatTick(v, c, 25) /\ BatKeep
    \/ \E on \in BOOLEAN : BatSetCharging(on) /\ BatKeep

SpecCharging == InitDefault /\ [][NextCharging]_vars

\* the battery monitor polled by one task and queried by another
NextBatTasks ==
    \/ mutex_ = "free" /\ BatDeviceInit /\ BatKeep
    \/ \E v \in ApiVoltages, t \in ApiTemperatures :
          mutex_ = "free" /\ BatteryInit(v, 100, t) /\ BatKeep
    \/ \E on \in BOOLEAN : mutex_ = "free" /\ BatSetCharging(on) /\ BatKeep
    \/ UpdBegin /\ TaskKeep
    \/ \E v \in ApiVoltages, t \in ApiTemperatures :
          UpdSample(v, 100, t) /\ TaskKeep
    \/ UpdPercentage /\ TaskKeep
    \/ UpdCharging /\ TaskKeep
    \/ UpdFinish /\ TaskKeep
    \/ \E g \in SensorGetters, v \in ApiVoltages, t \in ApiTemperatures :
          BatGet(g, v, 100, t) /\ TaskKeep
    \/ \E g \in StateGetters : BatGetState(g) /\ TaskKeep

SpecBatTasks == InitDefault /\ [][NextBatTasks]_vars

\* what a step of the monitor or of a handler leaves alone
EvKeep == UNCHANGED <<regVars, pmuVars, ctxVars, h_unlock_at, h_timeout_fixed,
                      halted, wake_timer_us, netVars, loop_pc, re, rxVars>>

\* the battery monitor publishing to a listener that calls it back
NextBatEvents ==
    \/ mutex_ = "free" /\ cb[1] = "none" /\ BatDeviceInit /\ BatKeep
    \/ \E v \in ApiVoltages, t \in ApiTemperatures :
          mutex_ = "free" /\ cb[1] = "none" /\ BatteryInit(v, 100, t) /\ BatKeep
    \/ cb[1] = "none" /\ MainSubscribe /\ BatKeep
    \/ UpdBegin /\ TaskKeep
    \/ \E v \in ApiVoltages, t \in ApiTemperatures :
          UpdSample(v, 100, t) /\ TaskKeep
    \/ UpdPercentage /\ TaskKeep
    \/ UpdCharging /\ TaskKeep
    \/ UpdPublish /\ EvKeep
    \/ UpdReturn /\ EvKeep
    \/ OtherPublish("network_connected") /\ EvKeep
    \/ \E g \in MonitorCalls, v \in ApiVoltages, t \in ApiTemperatures :
          CbCall(g, v, 100, t) /\ EvKeep
    \/ \E v \in ApiVoltages, t \in ApiTemperatures :
          CbAcquire(v, 100, t) /\ EvKeep
    \/ CbReturn /\ EvKeep

SpecBatEvents == InitDefault /\ [][NextBatEvents]_vars

\* the battery monitor polled by the main loop while the link comes and goes
NextBatLoop ==
    \/ BatDeviceInit /\ BatKeep
    \/ \E v \in ApiVoltages : BatteryInit(v, 100, 25) /\ BatKeep
    \/ \E v \in ApiVoltages : BatLoop(v, 100, 25) /\ TaskKeep
    \/ \E type \in {"network_connected", "network_disconnected"} :
          BatOnNetworkEvent(type) /\ TaskKeep
    \/ BatAdvance /\ TaskKeep

SpecBatLoop == InitDefault /\ [][NextBatLoop]_vars

\* the controller with the battery monitor and the network module, up to
\* the halt
NextSleepSys ==
    \/ ~halted /\ BatDeviceInit /\ BatKeep
    \/ \E v \in {3060, 3310}, t \in {25, 60} :
          ~halted /\ BatteryInit(v, 100, t) /\ BatKeep
    \/ \E on \in BOOLEAN : ~halted /\ BatSetCharging(on) /\ BatKeep
    \/ ~halted /\ NetCreate /\ NetKeep
    \/ ~halted /\ NetGotIp /\ NetKeep
    \/ \E ok \in BOOLEAN : ~halted /\ NetConnectTcp(ok) /\ NetKeep
    \/ ~halted /\ NetDisconnectTcp /\ NetKeep
    \/ ~halted /\ MainSubscribe /\ BatKeep
    \/ ~halted /\ PmuLock /\ PmuKeep
    \/ ~halted /\ PmuUnlock /\ PmuKeep
    \/ \E ms \in SleepArgs : ~halted /\ PmuEnterDeepSleep(ms)

SpecSleepSys == InitDefault /\ [][NextSleepSys]_vars

\* the bus called from one context
NextBus ==
    \/ \E t \in EventTypes, l \in alive \cup {Null} : BusSubscribe(t, l) /\ BusKeep
    \/ \E t \in EventTypes, l \in alive \cup {Null} : BusUnsubscribe(t, l) /\ BusKeep
    \/ \E t \in EventTypes : BusPublish(t) /\ BusKeep
    \/ \E l \in Listeners : ReleaseListener(l) /\ BusKeep

SpecBus == Init /\ [][NextBus]_vars

\* what a step of such a publish leaves alone
ReKeep == UNCHANGED <<regVars, pmuVars, ctxVars, h_unlock_at, h_timeout_fixed,
                      sleepVars, batVars, netVars, monVars, h_ret, loop_pc,
                      cb, rxVars>>

\* the network module called by the main task while its receive task runs
NextNetTasks ==
    \/ NetCreate /\ NetKeep
    \/ NetGotIp /\ NetKeep
    \/ \E ok \in BOOLEAN, made \in BOOLEAN :
          NetConnectTcpTask(ok, made) /\ NetTaskKeep
    \/ NetDisconnectTcpTask /\ NetTaskKeep
    \/ RxStart /\ NetTaskKeep
    \/ \E got \in BOOLEAN : RxRecv(got) /\ NetTaskKeep
    \/ RxFail /\ NetTaskKeep
    \/ RxExit /\ NetTaskKeep

SpecNetTasks == Init /\ [][NextNetTasks]_vars

\* the bus called from one context, handlers included
NextBusReentrant ==
    \/ \E l \in alive : re.pc = "idle" /\ BusSubscribe(ReType, l) /\ BusKeep
    \/ \E l \in alive : re.pc = "idle" /\ BusUnsubscribe(ReType, l) /\ BusKeep
    \/ \E l \in Listeners : re.pc = "idle" /\ ReleaseListener(l) /\ BusKeep
    \/ RePublish /\ ReKeep
    \/ ReInvoke /\ ReKeep
    \/ ReHandlerReturn /\ ReKeep
    \/ \E l \in alive : ReHandlerSubscribe(l) /\ ReKeep
    \/ \E l \in alive : ReHandlerUnsubscribe(l) /\ ReKeep
    \/ ReHandlerPublish /\ ReKeep

SpecBusReentrant == InitDefault /\ [][NextBusReentrant]_vars

\* the bus called from several contexts at once
NextBusTasks ==
    \/ \E c \in Contexts, t \in EventTypes, l \in alive,
          op \in {"subscribe", "unsubscribe"} :
           CtxCall(c, op, t, l) /\ CtxKeep
    \/ \E c \in Contexts, t \in EventTypes :
           CtxCall(c, "publish", t, Null) /\ CtxKeep
    \/ \E c \in Contexts : CtxSubscribePrune(c) /\ CtxKeep
    \/ \E c \in Contexts : CtxSubscribeFind(c) /\ CtxKeep
    \/ \E c \in Contexts : CtxSubscribePush(c) /\ CtxKeep
    \/ \E c \in Contexts : CtxUnsubscribeErase(c) /\ CtxKeep
    \/ \E c \in Contexts : CtxPublishPrune(c) /\ CtxKeep
    \/ \E c \in Contexts : CtxPublishIter(c) /\ CtxKeep
    \/ \E l \in Listeners : CtxRelease(l) /\ CtxKeep

SpecBusTasks == Init /\ [][NextBusTasks]_vars

(***************************************************************************)
(* Properties of the device registry                                       *)
(***************************************************************************)
UniqueNames(devs) ==
    \A i, j \in 1..Len(devs) : i # j => DevName(devs[i]) # DevName(devs[j])

IsPrefix(s, t) == Len(s) <= Len(t) /\ \A i \in 1..Len(s) : t[i] = s[i]

\* C1: after any sequence of register_device() calls no two registered
\* devices have equal names, and a registration never removes or replaces a
\* device registered before it: a colliding second device is rejected and
\* the first one stays.
C1_UniqueNames ==
    /\ [](UniqueNames(devices_))
    /\ [][ IsPrefix(devices_, devices_')
           /\ (last_op' = "register_device" /\ last_arg' # Null
               /\ (\E i \in 1..Len(devices_) :
                       DevName(devices_[i]) = DevName(last_arg'))
               => devices_' = devices_) ]_vars

\* a second object with a registered name was offered and is not in the
\* registry, while the first holder of the name is
C1_Witness ==
    /\ last_op = "register_device"
    /\ last_arg # Null
    /\ last_arg \notin Range(devices_)
    /\ \E i \in 1..Len(devices_) : DevName(devices_[i]) = DevName(last_arg)

(***************************************************************************)
(* Properties of the event bus                                             *)
(***************************************************************************)
NoRepeat(lst) == \A i, j \in 1..Len(lst) : lst[i] = lst[j] => i = j

\* C2: a publish invokes only listeners that hold a standing subscription
\* for the event's type; a listener whose subscription was removed by
\* unsubscribe(type, listener), with no subscribe(type, listener) since, is
\* not invoked.
C2_UnsubscribedNotInvoked ==
    last_op = "publish"
    => \A i \in 1..Len(delivered) :
          /\ <<last_arg[1], delivered[i]>> \notin h_unsub
          /\ Contains(h_order[last_arg[1]], delivered[i])

\* a publish has delivered to someone while a live listener that had been
\* subscribed to the type stays unsubscribed
C2_Witness ==
    /\ last_op = "publish"
    /\ delivered # <<>>
    /\ \E l \in alive : <<last_arg[1], l>> \in h_unsub

\* C3: a publish that meets the subscription of a released listener
\* completes, invokes no released listener and leaves no expired entry in
\* the vector of that type.
C3_ReleasedPruned ==
    last_op = "publish"
    => /\ \A i \in 1..Len(delivered) : delivered[i] \in alive
       /\ \A i \in 1..Len(TableGet(listeners_, last_arg[1])) :
             listeners_[last_arg[1]][i] \in alive

\* a publish has met an expired subscription and delivered to a live one
C3_Witness ==
    /\ last_op = "publish"
    /\ h_expired > 0
    /\ delivered # <<>>

\* C4: publish invokes on_event exactly once on every live listener
\* subscribed to the event's type, in subscription order, and on no other
\* listener.
C4_DeliveryInOrder ==
    last_op = "publish" => delivered = h_order[last_arg[1]]

\* two listeners were invoked in an order that is not the order of their
\* identities, while the other type has a single subscriber
C4_Witness ==
    /\ last_op = "publish"
    /\ Len(delivered) = 2
    /\ delivered[1] > delivered[2]
    /\ \E t \in EventTypes : t # last_arg[1] /\ Len(h_order[t]) = 1

\* C5 as stated: subscribe with a null or an already subscribed listener
\* leaves the table unchanged; otherwise the listener ends up last in the
\* vector of its type.
C5_SubscribeLeavesTable ==
    [][ last_op' = "subscribe"
        => IF last_arg'[2] = Null
              \/ Contains(TableGet(listeners_, last_arg'[1]), last_arg'[2])
           THEN listeners_' = listeners_
           ELSE LET lst == listeners_'[last_arg'[1]]
                IN Len(lst) > 0 /\ lst[Len(lst)] = last_arg'[2] ]_vars

\* C5, amended: subscribe with a null listener leaves the table unchanged;
\* with a listener already subscribed to the type it adds no entry and only
\* erases the expired entries of that type; otherwise it erases them and
\* appends the listener at the end.  Other types are untouched, a live
\* listener appears at most once per type, and a publish invokes no listener
\* twice.
C5_SubscribeNoDuplicate ==
    /\ [](/\ \A t \in DOMAIN listeners_ : NoRepeat(listeners_[t])
          /\ NoRepeat(delivered))
    /\ [][ last_op' = "subscribe"
           => LET t == last_arg'[1]
                  l == last_arg'[2]
                  old == TableGet(listeners_, t)
                  live == PruneExpired(old, alive)
              IN IF l = Null THEN listeners_' = listeners_
                 ELSE /\ DOMAIN listeners_' = DOMAIN listeners_ \cup {t}
                      /\ \A k \in DOMAIN listeners_ \ {t} :
                            listeners_'[k] = listeners_[k]
                      /\ listeners_'[t] =
                            IF Contains(old, l) THEN live ELSE Append(live, l)
         ]_vars

\* a subscribe has been repeated for a listener that was in the vector
\* already: it is there, and not in last place
C5_Witness ==
    /\ last_op = "subscribe"
    /\ last_arg[2] # Null
    /\ LET lst == TableGet(listeners_, last_arg[1])
       IN /\ Contains(lst, last_arg[2])
          /\ lst[Len(lst)] # last_arg[2]

\* C6: the vector a context is delivering from is never modified by another
\* context while the delivery loop runs.
C6_TableExclusive ==
    \A c \in Contexts : cpc[c] = "pub_iter" => ~cdirty[c]

(***************************************************************************)
(* Properties of the power controller                                      *)
(***************************************************************************)
pmuState == <<is_locked_, is_suspended_, last_unlock_time_, idle_timeout_>>
devState == <<devices_, dev_initialized, dev_suspended>>

\* C7: with the timeout unchanged since an unlock() that took effect at
\* h_unlock_at and no lock() since, the controller becomes Suspended only
\* in a loop() whose clock reading is at least h_unlock_at + T seconds.
C7_NoEarlySuspend ==
    [][ (~is_suspended_ /\ is_suspended_')
        => /\ last_op' = "loop"
           /\ (h_unlock_at >= 0 /\ h_timeout_fixed
               => now' >= h_unlock_at + idle_timeout_ * TicksPerSec) ]_vars

\* a loop() has suspended the devices after an unlock() at a positive time
C7_Witness ==
    /\ is_suspended_
    /\ last_op = "loop"
    /\ mgr_calls = <<"suspend_all">>
    /\ h_unlock_at > 0
    /\ h_timeout_fixed
    /\ idle_timeout_ > 0

\* C8: no state shows the controller as locked while a registered device
\* is still suspended: lock() resumes the devices before it marks the
\* controller locked.
C8_LockedAfterResume ==
    is_locked_ => \A d \in Range(devices_) : ~dev_suspended[d]

\* C9: unlock() called while locked clears the lock and records the time of
\* the call as the idle-window start, leaving the controller Unlocked-Active;
\* called while not locked it changes nothing; it never touches a device.
C9_UnlockIdempotent ==
    [][ last_op' = "unlock"
        => /\ IF is_locked_
              THEN /\ ~is_locked_'
                   /\ ~is_suspended_'
                   /\ last_unlock_time_' = now
                   /\ UNCHANGED <<is_suspended_, idle_timeout_>>
              ELSE UNCHANGED pmuState
           /\ UNCHANGED devState
           /\ dev_ops' = <<>> /\ mgr_calls' = <<>> ]_vars

\* an unlock() has just cleared the lock at a positive time
C9_Witness ==
    /\ last_op = "unlock"
    /\ ~is_locked_ /\ ~is_suspended_
    /\ h_unlock_at = now
    /\ last_unlock_time_ = now
    /\ now > 0

\* C10: loop() changes nothing and calls no device operation while the
\* controller is locked or suspended; while Unlocked-Active it calls
\* suspend_all() and becomes Suspended exactly when the time since the
\* idle-window start is at least the idle timeout, else changes nothing.
C10_LoopFrame ==
    [][ last_op' = "loop"
        => IF ~is_locked_ /\ ~is_suspended_
              /\ now - last_unlock_time_ >= idle_timeout_ * TicksPerSec
           THEN /\ mgr_calls' = <<"suspend_all">>
                /\ dev_ops' = Broadcast("suspend", devices_)
                /\ is_suspended_'
                /\ UNCHANGED <<is_locked_, last_unlock_time_, idle_timeout_,
                               devices_, dev_initialized>>
           ELSE /\ mgr_calls' = <<>>
                /\ dev_ops' = <<>>
                /\ UNCHANGED <<pmuState, devState>> ]_vars

\* a loop() has run on a locked controller past the timeout and done nothing
C10_Witness ==
    /\ last_op = "loop"
    /\ is_locked_
    /\ mgr_calls = <<>>
    /\ idle_timeout_ > 0
    /\ now - last_unlock_time_ >= idle_timeout_ * TicksPerSec

(***************************************************************************)
(* Properties of the suspend / resume cycle                                *)
(***************************************************************************)
\* the latest operation was the lock() that ended a suspension
LockResumed == last_op = "lock" /\ mgr_calls = <<"resume_all">>

\* C11: with the devices registered and initialised, after unlock() the
\* first loop() that finds the idle timeout elapsed invokes suspend_all()
\* once and the controller reports suspended; further loop() calls invoke
\* nothing, so no device has had a second suspend(); the lock() that follows
\* invokes resume_all() once, leaves no device suspended and the controller
\* reports locked and not suspended.
C11_EndToEnd ==
    /\ [](\A d \in Devices : h_suspends[d] <= 1)
    /\ [][ /\ (last_op' = "loop" /\ ~is_locked_ /\ ~is_suspended_
               /\ TimedOut(now, last_unlock_time_, idle_timeout_)
               => /\ mgr_calls' = <<"suspend_all">>
                  /\ dev_ops' = Broadcast("suspend", devices_)
                  /\ is_suspended_' /\ ~is_locked_')
           /\ (last_op' = "loop" /\ is_suspended_
               => /\ mgr_calls' = <<>> /\ dev_ops' = <<>>
                  /\ is_suspended_' /\ ~is_locked_')
           /\ (last_op' = "lock" /\ is_suspended_
               => /\ mgr_calls' = <<"resume_all">>
                  /\ dev_ops' = Broadcast("resume", devices_)
                  /\ \A d \in Range(devices_) : ~dev_suspended'[d]
                  /\ is_locked_' /\ ~is_suspended_') ]_vars

\* two initialised devices went through a suspension and the lock() that
\* ended it has resumed both
C11_Witness ==
    /\ LockResumed
    /\ dev_ops = Broadcast("resume", devices_)
    /\ Len(devices_) = 2
    /\ \A d \in Range(devices_) : dev_initialized[d] /\ ~dev_suspended[d]
    /\ is_locked_ /\ ~is_suspended_

\* C12: suspend_all() on a registry whose devices a previous suspend_all()
\* has suspended, with no resume_all() in between, invokes no device's
\* suspend() a second time.
C12_SuspendAllIdempotent == \A d \in Devices : h_suspends[d] <= 1

\* C13: lock() on a controller that is already locked does not call
\* resume_all() and leaves the lock flag, the suspended flag and the start
\* of the idle window unchanged.
C13_LockIdempotent ==
    [][ is_locked_ /\ last_op' = "lock"
        => /\ mgr_calls' = <<>> /\ dev_ops' = <<>>
           /\ dev_suspended' = dev_suspended
           /\ is_locked_' /\ is_suspended_' = is_suspended_
           /\ last_unlock_time_' = last_unlock_time_ ]_vars

\* lock() has just been called on a controller that has held the lock since
\* before the idle timeout was last changed
C13_Witness ==
    /\ last_op = "lock"
    /\ is_locked_
    /\ ~h_timeout_fixed
    /\ now > 0

(***************************************************************************)
(* Properties of the deep-sleep sequence                                   *)
(***************************************************************************)
\* C14: enter_deep_sleep(ms) can be called in every controller state, locked,
\* unlocked or suspended; it publishes the enter_deep_sleep event and every
\* live subscriber's handler has been called and has returned before the
\* halt primitive is started, which is the last thing it does; the wake-up
\* timer is armed exactly when ms > 0.
C14_SleepSequence ==
    /\ (~halted /\ pmu_pc = "idle"
        => \A ms \in SleepArgs : ENABLED PmuEnterDeepSleep(ms))
    /\ (halted =>
          LET n == Len(effects) IN
          /\ last_op = "enter_deep_sleep"
          /\ effects[1] = <<"publish", "enter_deep_sleep", 0>>
          /\ effects[n] = <<"halt", "", 0>>
          /\ \A i \in 1..(n - 1) : effects[i][1] # "halt"
          /\ \A l \in alive :
                Contains(h_order["enter_deep_sleep"], l)
                => \E i \in 2..(n - 1) :
                      effects[i] = <<"on_event", "enter_deep_sleep", l>>
          /\ ((\E i \in 1..(n - 1) : effects[i][1] = "timer") <=> last_arg > 0)
          /\ (wake_timer_us # <<>> <=> last_arg > 0))

\* a suspended controller has gone to sleep with the timer armed, after a
\* subscriber's handler was called
C14_Witness ==
    /\ halted
    /\ is_suspended_ /\ ~is_locked_
    /\ delivered # <<>>
    /\ wake_timer_us # <<>>

\* C15: when the battery monitor has been initialised with a sensor and
\* the pre-sleep event is published, the monitor's handler runs and charging
\* is disabled on the sensor before enter_deep_sleep reaches the halt,
\* whatever the battery state is.
C15_ChargingOffAtHalt ==
    halted /\ battery_device_ /\ bat_initialized => charge_pin = 0

\* C16: the network module stays subscribed to the pre-sleep event: when
\* enter_deep_sleep is published, the module's handler runs and the TCP
\* transport is closed (tcp_connected_ false, no socket) before the halt.
C16_TransportClosedAtHalt ==
    halted /\ net_created => ~tcp_connected_ /\ sock_ < 0

(***************************************************************************)
(* Properties of the battery monitor                                       *)
(***************************************************************************)
IsTick(op) == op \in {"update_battery_state", "battery_manager::init"}

StateEventTypes ==
    {"battery_low", "battery_critical", "battery_normal", "charging_started"}
ThermalEventTypes == {"battery_temp_high", "battery_temp_normal"}

\* the events of the given types that a sequence of effects has published
PublishedOf(eff, types) ==
    LET In(t) == t \in types IN SelectSeq(Published(eff), In)

\* C17: with thresholds low=20 and critical=10 and the sensor not charging,
\* successive ticks with percentages 5, 15, 25, 85, 100 leave the battery
\* state critical, low, normal, high, full in that order, and each tick
\* publishes at most one state-change event.
C17_DischargeRun ==
    h_scenario > 0
    => /\ current_state_ = ScenarioStates[h_scenario]
       /\ Len(PublishedOf(effects, StateEventTypes)) <= 1

\* C18: an update tick publishes exactly one battery-state event when the
\* state it computes differs from the state before it, and none when it is
\* equal; the event is battery_low for low, battery_critical for critical,
\* battery_normal for normal, high or full, charging_started for charging.
C18_StateEvents ==
    [][ IsTick(last_op') /\ battery_device_'
        => PublishedOf(effects', StateEventTypes) =
              IF current_state_' = current_state_ THEN <<>>
              ELSE IF current_state_' = "low" THEN <<"battery_low">>
              ELSE IF current_state_' = "critical" THEN <<"battery_critical">>
              ELSE IF current_state_' = "charging" THEN <<"charging_started">>
              ELSE <<"battery_normal">> ]_vars

\* a tick has taken the battery to low and the system listener was told
C18_Witness ==
    /\ last_op = "update_battery_state"
    /\ current_state_ = "low"
    /\ Published(effects) = <<"battery_low">>
    /\ delivered = <<1>>

\* C19: thermal hysteresis. The tick whose temperature exceeds the critical
\* threshold while no excursion is open disables charging and publishes
\* battery_temp_high once; ticks above critical in an excursion, and ticks
\* between the two thresholds, publish no thermal event; a tick below the
\* warning threshold in an excursion re-enables charging once and publishes
\* battery_temp_normal once, outside one it does nothing; the two events
\* alternate, battery_temp_high first.
C19_ThermalHysteresis ==
    [][ IsTick(last_op') /\ battery_device_'
        => LET T == last_sample'[3]
               open == h_last_thermal = "battery_temp_high"
               th == PublishedOf(effects', ThermalEventTypes)
               ons == {i \in 1..Len(effects') :
                          effects'[i] = <<"charging", "on", 0>>}
               offs == {i \in 1..Len(effects') :
                           effects'[i] = <<"charging", "off", 0>>}
           IN /\ (T > BATTERY_TEMP_CRITICAL /\ ~open
                  => th = <<"battery_temp_high">> /\ offs # {} /\ ons = {}
                     /\ charge_pin' = 0)
              /\ (T > BATTERY_TEMP_CRITICAL /\ open
                  => th = <<>> /\ ons = {} /\ charge_pin' = 0)
              /\ (T >= BATTERY_TEMP_WARNING /\ T <= BATTERY_TEMP_CRITICAL
                  => th = <<>> /\ ons = {} /\ offs = {}
                     /\ charge_pin' = charge_pin)
              /\ (T < BATTERY_TEMP_WARNING /\ open
                  => th = <<"battery_temp_normal">> /\ Cardinality(ons) = 1
                     /\ offs = {} /\ charge_pin' = 1)
              /\ (T < BATTERY_TEMP_WARNING /\ ~open
                  => th = <<>> /\ ons = {} /\ offs = {}
                     /\ charge_pin' = charge_pin)
              /\ (h_last_thermal = "none" /\ th # <<>>
                  => th = <<"battery_temp_high">>)
              /\ (th # <<>> => th[1] # h_last_thermal) ]_vars

\* a tick below the warning threshold has just ended an excursion
C19_Witness ==
    /\ last_op = "update_battery_state"
    /\ h_last_thermal = "battery_temp_normal"
    /\ Published(effects)[1] = "battery_temp_normal"
    /\ ~temp_warning_active_
    /\ charge_pin = 1

\* C20: in the tick that starts an over-temperature excursion the
\* battery_temp_high event is published, and delivered to its listeners,
\* before charging is disabled on the sensor.
C20_EventBeforeDisable ==
    \A i, j \in 1..Len(effects) :
        effects[i] = <<"charging", "off", 0>>
        /\ effects[j][2] = "battery_temp_high"
        => j < i

(***************************************************************************)
(* Batches and frames of the device registry                               *)
(***************************************************************************)
\* the device operation that a batch of the registry invokes
BatchOp(op) ==
    CASE op = "init_all" -> "init"
      [] op = "deinit_all" -> "deinit"
      [] op = "suspend_all" -> "suspend"
      [] op = "resume_all" -> "resume"

BatchNames == {"init_all", "deinit_all", "suspend_all", "resume_all"}

\* C22: init_all, deinit_all, suspend_all and resume_all each invoke the
\* matching operation exactly once on every registered device, in
\* registration order, whichever devices report a failure.
C22_BatchComplete ==
    [][ last_op' \in BatchNames
        => /\ Len(dev_ops') = Len(devices_)
           /\ \A i \in 1..Len(devices_) :
                 dev_ops'[i] = <<BatchOp(last_op'), devices_[i]>>
           /\ devices_' = devices_ ]_vars

\* init_all has gone through two devices; the first one's init failed and
\* the second was initialised all the same
C22_Witness ==
    /\ last_op = "init_all"
    /\ Len(devices_) = 2
    /\ dev_ops = << <<"init", devices_[1]>>, <<"init", devices_[2]>> >>
    /\ ~dev_initialized[devices_[1]]
    /\ dev_initialized[devices_[2]]

\* C23: a rejected registration (null device, or a name equal to that of a
\* registered device) leaves the registry as it was; an accepted one appends
\* the device at the end and changes nothing else.
C23_RegisterFrame ==
    [][ last_op' = "register_device"
        => LET dev == last_arg'
               rejected == dev = Null
                           \/ \E d \in Range(devices_) : DevName(d) = DevName(dev)
           IN /\ devices_' = IF rejected THEN devices_
                              ELSE devices_ \o <<dev>>
              /\ dev_initialized' = dev_initialized
              /\ dev_suspended' = dev_suspended
              /\ dev_ops' = <<>> ]_vars

\* a device whose name is taken has just been turned away from a registry
\* of two devices, the first of them initialised
C23_Witness ==
    /\ last_op = "register_device"
    /\ last_arg # Null
    /\ last_arg \notin Range(devices_)
    /\ Len(devices_) = 2
    /\ dev_initialized[devices_[1]]

(***************************************************************************)
(* Properties of the controller's destruction                              *)
(***************************************************************************)
\* C24: destroying the power controller while it is suspended calls
\* resume_all() on the registry exactly once, and with it resume() once on
\* every registered device, before the controller is gone; destroying it
\* while it is not suspended calls no device operation.
C24_DestructorResumes ==
    [][ last_op' = "~pmu"
        => /\ pmu_pc' = "gone"
           /\ (is_suspended_
               => /\ mgr_calls' = <<"resume_all">>
                  /\ Len(dev_ops') = Len(devices_)
                  /\ \A i \in 1..Len(devices_) :
                        dev_ops'[i] = <<"resume", devices_[i]>>
                  /\ \A d \in Range(devices_) : ~dev_suspended'[d])
           /\ (~is_suspended_
               => /\ mgr_calls' = <<>> /\ dev_ops' = <<>>
                  /\ dev_suspended' = dev_suspended) ]_vars

\* a controller that had suspended two initialised devices has been
\* destroyed and the devices run again
C24_Witness ==
    /\ last_op = "~pmu"
    /\ pmu_pc = "gone"
    /\ is_suspended_
    /\ mgr_calls = <<"resume_all">>
    /\ Len(devices_) = 2
    /\ \A d \in Range(devices_) : dev_initialized[d] /\ ~dev_suspended[d]

(***************************************************************************)
(* Frame of unsubscribe                                                    *)
(***************************************************************************)
\* s is t with some elements left out, the others in their order
RECURSIVE IsSubsequence(_, _)
IsSubsequence(s, t) ==
    IF s = <<>> THEN TRUE
    ELSE IF t = <<>> THEN FALSE
    ELSE IF Head(s) = Head(t) THEN IsSubsequence(Tail(s), Tail(t))
    ELSE IsSubsequence(s, Tail(t))

C26_NoSensor ==
    [][ /\ (~battery_device_ /\ last_op' = "get_voltage"
            => h_ret' = <<"mV", last_sample[1], "">> /\ batVars' = batVars)
        /\ (~battery_device_ /\ last_op' = "get_current"
            => h_ret' = <<"mA", last_sample[2], "">> /\ batVars' = batVars)
        /\ (~battery_device_ /\ last_op' = "get_temperature"
            => h_ret' = <<"C", last_sample[3], "">> /\ batVars' = batVars)
        /\ (~battery_device_ /\ last_op' = "set_charging"
            => h_ret' = <<"bool", 0, "">> /\ batVars' = batVars)
        /\ (~battery_device_ /\ last_op' = "update_battery_state"
            => /\ batVars' = batVars
               /\ listeners_' = listeners_
               /\ Published(effects') = <<>>
               /\ delivered' = <<>>)
        /\ (last_op' = "battery_manager::init(nullptr)"
            => /\ h_ret' = <<"bool", 0, "">>
               /\ listeners_' = listeners_
               /\ batVars' = batVars) ]_vars

\* get_voltage has just answered, for a monitor whose sensor was released,
\* with the voltage stored by an earlier tick
C26_Witness ==
    /\ last_op = "get_voltage"
    /\ ~battery_device_
    /\ last_sample[1] \in ApiVoltages
    /\ h_ret = <<"mV", last_sample[1], "">>
    /\ last_arg[1] # last_sample[1]

(***************************************************************************)
(* Thresholds and the derived states                                       *)
(***************************************************************************)
\* C27: set_low_battery_threshold accepts exactly the values 5..50 and
\* set_critical_battery_threshold exactly the values 1..20; any other value
\* leaves the stored threshold unchanged, so both thresholds, which start
\* in range, stay within their ranges.
C27_ThresholdRanges ==
    /\ [](/\ low_battery_threshold_ \in 5..50
          /\ critical_battery_threshold_ \in 1..20)
    /\ [][ /\ (last_op' = "set_low_battery_threshold"
                => /\ low_battery_threshold_' =
                        IF last_arg' \in 5..50 THEN last_arg'
                        ELSE low_battery_threshold_
                   /\ critical_battery_threshold_' =
                        critical_battery_threshold_)
            /\ (last_op' = "set_critical_battery_threshold"
                => /\ critical_battery_threshold_' =
                        IF last_arg' \in 1..20 THEN last_arg'
                        ELSE critical_battery_threshold_
                   /\ low_battery_threshold_' = low_battery_threshold_) ]_vars

\* a set_low_battery_threshold(51) has just been ignored by a monitor whose
\* thresholds had been moved to the ends of their ranges
C27_Witness ==
    /\ last_op = "set_low_battery_threshold"
    /\ last_arg = 51
    /\ low_battery_threshold_ = 5
    /\ critical_battery_threshold_ = 20

\* the states of the priority order that the claim says can be produced
ProducedStates == {"critical", "low", "normal", "high", "full", "charging"}

\* a tick leaves the first matching state of the stated priority order
StateByPriority ==
    [][ IsTick(last_op') /\ battery_device_'
        => current_state_' =
              IF SensorCharging THEN "charging"
              ELSE IF charge_percentage_' <= critical_battery_threshold_
              THEN "critical"
              ELSE IF charge_percentage_' <= low_battery_threshold_ THEN "low"
              ELSE IF charge_percentage_' > 80 THEN "high"
              ELSE IF charge_percentage_' >= 100 THEN "full"
              ELSE "normal" ]_vars

\* every state of ProducedStates is the outcome of the state computation for
\* some charging flag, percentage and pair of thresholds
EveryStateProduced ==
    \A state \in ProducedStates :
        \E is_charging \in BOOLEAN, percentage \in 0..100,
           low \in LOW_THRESHOLD_MIN..LOW_THRESHOLD_MAX,
           critical \in CRITICAL_THRESHOLD_MIN..CRITICAL_THRESHOLD_MAX :
            BatteryStateOf(is_charging, percentage, low, critical) = state

\* C28: after each update tick the battery state is the first matching case
\* of charging > critical (percentage <= critical threshold) > low
\* (percentage <= low threshold) > high (percentage > 80) > full
\* (percentage >= 100) > normal, on the values sampled in that tick; and
\* each of critical, low, normal, high, full and charging is produced by
\* some input.
C28_StatePriority == StateByPriority /\ []EveryStateProduced

\* C29: after each update tick the charging state is not_charging when the
\* sensor reported not charging; otherwise fast when current < -500, else
\* slow when current < -100, else trickle when current < -10, else complete
\* when percentage >= 100, else error.  The percentage the tick stores is
\* within 0..100: 0 at or below the empty voltage, 100 at or above the full
\* voltage, and never lower for a higher voltage.
C29_ChargingState ==
    [][ IsTick(last_op') /\ battery_device_'
        => LET voltage == last_sample'[1]
               current == last_sample'[2]
               pct == charge_percentage_'
           IN /\ (~SensorCharging => charging_state_' = "not_charging")
              /\ (SensorCharging =>
                    charging_state_' =
                       IF current < 0 - 500 THEN "fast_charging"
                       ELSE IF current < 0 - 100 THEN "slow_charging"
                       ELSE IF current < 0 - 10 THEN "trickle_charging"
                       ELSE IF pct >= 100 THEN "complete"
                       ELSE "error")
              /\ pct \in 0..100
              /\ (voltage <= BATTERY_MIN_VOLTAGE => pct = 0)
              /\ (voltage >= BATTERY_MAX_VOLTAGE => pct = 100)
              /\ (IsTick(last_op) /\ battery_device_
                  => /\ last_sample[1] <= voltage => charge_percentage_ <= pct
                     /\ last_sample[1] >= voltage
                        => charge_percentage_ >= pct) ]_vars

\* a tick at a current of exactly -100 mA, while charging, has left trickle
\* charging at a percentage strictly between the two ends
C29_Witness ==
    /\ last_op = "update_battery_state"
    /\ battery_device_
    /\ last_sample[2] = 0 - 100
    /\ charging_state_ = "trickle_charging"
    /\ charge_percentage_ = 99

(***************************************************************************)
(* Getters against the update                                              *)
(***************************************************************************)
\* the positions of update_battery_state() between its first write
\* (last_voltage_) and its last one (current_state_)
WriteWindow == {"sampled", "percentage", "charging"}

AllGetters == SensorGetters \cup StateGetters

\* C21: every getter of the battery monitor (get_voltage, get_current,
\* get_temperature, get_charge_percentage, get_battery_state,
\* get_charging_state) is excluded from update_battery_state by the monitor
\* mutex: no getter runs or returns a value while the update is between
\* the first and the last write of a tick.
C21_GettersExcluded ==
    last_op \in AllGetters => get_at \notin WriteWindow

(***************************************************************************)
(* Polling cadence                                                         *)
(***************************************************************************)
\* C30: after the battery monitor has received a link-down event its
\* polling is slower: once loop() has made an update after the event, a
\* loop() call that comes no later than the former interval after that
\* update makes no update.
C30_SlowerAfterLinkDown ==
    [][ /\ h_linkdown /\ h_tick_after
        /\ last_op' = "battery_manager::loop"
        /\ bat_time - last_check_time <= BATTERY_CHECK_INTERVAL_MS
        => last_check_time' = last_check_time ]_vars

(***************************************************************************)
(* Charging after battery_device::init                                     *)
(***************************************************************************)
\* C31: battery_device::init() turns charging on: when init() has just
\* returned 0 the device is initialised and is_charging() reports true.
C31_InitEnablesCharging ==
    last_op = "battery_device::init" /\ h_ret = <<"int", 0, "">>
    => bat_initialized /\ SensorCharging

(***************************************************************************)
(* lock() against loop()                                                   *)
(***************************************************************************)
\* C32: with lock() and loop() running in different contexts the
\* controller never ends up both locked and suspended: whenever neither
\* call is under way, is_suspended_ implies not is_locked_ (stated for a
\* controller whose idle timeout is positive).
C32_NeverLockedAndSuspended ==
    idle_timeout_ > 0 /\ pmu_pc = "idle" /\ loop_pc = "idle"
    => (is_suspended_ => ~is_locked_)

(***************************************************************************)
(* Calling the monitor from on_event                                       *)
(***************************************************************************)
\* C33: a listener invoked for an event that update_battery_state()
\* publishes can call get_voltage, get_current, get_temperature,
\* enable_charging or disable_charging from on_event and the call returns:
\* such a call is never left waiting for the monitor mutex while the
\* update that is delivering the event holds it.
C33_CallFromHandlerReturns ==
    ~(cb[1] = "blocked" /\ cb[3] = "update" /\ upd_pc = "delivering"
      /\ mutex_ = "update")

(***************************************************************************)
(* Bus calls made from on_event                                            *)
(***************************************************************************)
\* C34: when handlers call subscribe, unsubscribe or publish for the type
\* being delivered, the running delivery stays well defined: once publish
\* has returned, the listeners that were in the vector when it started
\* and were not unsubscribed meanwhile have each been invoked exactly
\* once, in the order of the vector.
C34_ReentrantDelivery ==
    re.pc = "idle"
    => LET Kept(l) == l \notin re.removed
           KeptOfStart(l) == l \in Range(re.start) /\ l \notin re.removed
       IN SelectSeq(re.calls, KeptOfStart) = SelectSeq(re.start, Kept)

(***************************************************************************)
(* The controller's calls to the registry                                  *)
(***************************************************************************)
PmuOps == {"lock", "unlock", "loop", "set_idle_timeout"}

\* C35: over lock(), unlock(), loop() and set_idle_timeout() calls made
\* from one context the controller's registry calls alternate, starting
\* with suspend_all(): the controller starts not suspended, a call makes at
\* most one registry call, suspend_all() is called only when the devices
\* are not suspended and sets the flag, resume_all() is called only when
\* they are suspended and clears it, and the flag changes with no other
\* call.
C35_RegistryCallsAlternate ==
    /\ ~is_suspended_
    /\ [][ last_op' \in PmuOps
           => /\ Len(mgr_calls') <= 1
              /\ mgr_calls' = <<"suspend_all">>
                 => ~is_suspended_ /\ is_suspended_'
              /\ mgr_calls' = <<"resume_all">>
                 => is_suspended_ /\ ~is_suspended_'
              /\ mgr_calls' = <<>> => is_suspended_' = is_suspended_ ]_vars

\* lock() has just resumed registered devices that an earlier loop() had
\* suspended
C35_Witness ==
    /\ last_op = "lock"
    /\ mgr_calls = <<"resume_all">>
    /\ dev_ops = Broadcast("resume", devices_)
    /\ Len(devices_) = NumPmuDevices
    /\ ~is_suspended_
    /\ is_locked_

(***************************************************************************)
(* Charging during an over-temperature excursion                           *)
(***************************************************************************)
\* C36: while an over-temperature excursion is in progress
\* (battery_temp_high published, battery_temp_normal not yet) charging is
\* off after every update tick whose temperature is at or above the
\* warning threshold, whatever enable_charging() calls were made between
\* the ticks.
C36_NoChargingDuringExcursion ==
    /\ last_op = "update_battery_state"
    /\ battery_device_
    /\ h_last_thermal = "battery_temp_high"
    /\ last_sample[3] >= BATTERY_TEMP_WARNING
    => ~SensorCharging

(***************************************************************************)
(* The states stored by the tick that disables charging                    *)
(***************************************************************************)
\* C37: after an update tick whose thermal guard has disabled charging
\* (temperature above the critical threshold) the stored BatteryState and
\* ChargingState are those of a sensor that is not charging: the state is
\* not charging and the charging state is not_charging.
C37_StatesAfterGuard ==
    /\ last_op = "update_battery_state"
    /\ battery_device_ /\ bat_initialized
    /\ ThermalCritical(last_sample[3])
    => /\ ~SensorCharging
       /\ current_state_ # "charging"
       /\ charging_state_ = "not_charging"

(***************************************************************************)
(* The two thresholds against each other                                   *)
(***************************************************************************)
\* C38: after any sequence of threshold setter calls the critical
\* threshold is at most the low threshold.
C38_CriticalAtMostLow ==
    critical_battery_threshold_ <= low_battery_threshold_

(***************************************************************************)
(* Sign of the idle timeout                                                *)
(***************************************************************************)
\* C39: the idle timeout of the power controller is strictly positive in
\* every reachable state, from its construction on.
C39_TimeoutPositive ==
    idle_timeout_ > 0

(***************************************************************************)
(* The receive task of an established connection                           *)
(***************************************************************************)
\* C40: whenever the latest connect_tcp returned true and tcp_connected_
\* is true, a receive task exists that reads the current socket: the task
\* is about to start, or it is inside its receive loop on sock_.
C40_ReceiveTaskRuns ==
    h_conn /\ tcp_connected_
    => /\ task_handle_
       /\ \/ rx_pc = "created"
          \/ rx_pc \in {"recv", "failed"} /\ rx_sock = sock_
====
